---- MODULE Spec2Model ----
(***************************************************************************)
(* A model of the giga editor core: the rope-backed File, the View with    *)
(* its cursor and scroll arithmetic, the Command/execute layer and the     *)
(* three threads (input, git, tui) with their mutexes and refresh channel. *)
(*                                                                         *)
(* Text is a sequence of one-character strings; NL is the line feed.       *)
(* Indices of the source are 0-based and are kept 0-based here: the        *)
(* operators translate to TLA+'s 1-based sequences where they index.       *)
(***************************************************************************)
EXTENDS Integers, Sequences, FiniteSets, TLC

VARIABLES
    view,       \* the View: content (the File's rope), start_line, start_col, height, width, cursor
    mode,       \* Editor.mode: "Normal", "Insert" or "Rename"
    file_name,  \* Editor.file_name, a sequence of characters
    last,       \* the last File/View call: its name, arguments, the state before it and its result
    exec,       \* the last Editor::execute: the command, the editor before it, the intent returned
    panicked,   \* TRUE once a call has panicked (the caller unwinds; the state is left as it was)
    git_ref,    \* Editor.git_ref is Some (TRUE: a git thread runs) or None (FALSE)
    diff,       \* Editor.diff: None or Some(patches)
    term,       \* the terminal's room for text, <<width, height>>, as get_term_size reports it
    chan,       \* the refresh channel: the RefreshOrders sent and not yet received
    holder,     \* for each mutex the thread that holds it, "free" if none does
    poisoned,   \* the mutexes a thread panicked under
    pc,         \* where each of the threads input, tui and git is
    stack,      \* input thread: the calls of execute in progress, as frames
    tui_order,  \* tui thread: the order it is handling
    new_diff,   \* git thread: the diff it computed and has not stored yet
    nkeys,      \* the keys read so far
    proc,       \* "starting", "running", "exited" (exit(0)), "failed" (exit(1)) or "aborted" (the main thread panicked)
    file_path,  \* Editor.file_path: the directory of the file, with its closing '/'
    disk        \* the file system: the content of each path that exists

thread_vars == <<git_ref, diff, term, chan, holder, poisoned, pc, stack,
                 tui_order, new_diff, nkeys, proc>>

fs_vars == <<file_path, disk>>

vars == <<view, mode, file_name, last, exec, panicked, thread_vars, fs_vars>>

\* ------------------------------------------------------------------ bounds

\* Longest text, in characters (line feeds included).
MaxChars == 3
\* Largest line/column argument handed to a File call (past every valid index).
MaxArg == 4
\* Largest window height and width.
MaxDim == 2

\* isize::MAX, scaled to TLC's 32-bit integers: far above every index of the
\* model, with usize::MAX = 2 * IsizeMax + 1 and room above it for a sum.
IsizeMax == 1048575

NL == "\n"
Glyphs == {"a", "b"}
Chars == Glyphs \cup {NL}

Min(a, b) == IF a < b THEN a ELSE b
Max(a, b) == IF a > b THEN a ELSE b

\* ------------------------------------------------------------------ Rope

\* Rope::len_chars
len_chars(r) == Len(r)

\* Rope::len_lines: the number of line breaks plus one (1 for the empty rope).
len_lines(r) == Cardinality({i \in 1..Len(r) : r[i] = NL}) + 1

\* Rope::line_to_char: the char index of the start of line `line`; the
\* one-past-the-end line gives len_chars. Defined for line <= len_lines only
\* (the rope panics beyond).
line_to_char(r, line) ==
    IF line = 0 THEN 0
    ELSE IF line >= len_lines(r) THEN Len(r)
    ELSE CHOOSE i \in 1..Len(r) :
            /\ r[i] = NL
            /\ Cardinality({j \in 1..i : r[j] = NL}) = line

\* Rope::line(line): the chars of the line, its line break included.
rope_line(r, line) ==
    SubSeq(r, line_to_char(r, line) + 1, line_to_char(r, line + 1))

\* Rope::insert_char(char_idx, c)
insert_char(r, char_idx, c) ==
    SubSeq(r, 1, char_idx) \o <<c>> \o SubSeq(r, char_idx + 1, Len(r))

\* Rope::remove(from..to)
remove(r, from, to) ==
    SubSeq(r, 1, from) \o SubSeq(r, to + 1, Len(r))

\* str::trim_end_matches('\n')
RECURSIVE trim_end_matches(_)
trim_end_matches(s) ==
    IF Len(s) > 0 /\ s[Len(s)] = NL
    THEN trim_end_matches(SubSeq(s, 1, Len(s) - 1))
    ELSE s

\* ------------------------------------------------------------------ File

\* File::new: an empty rope.
File_new == << >>

\* File::len counting the line feeds only: a text without a final line feed
\* loses its last line, and the empty text has no line at all.
File_len_line_feeds(r) == Cardinality({i \in 1..Len(r) : r[i] = NL})

\* File::len
File_len(r) == len_lines(r)

\* File::line: None past the last line, else the line without its line feed.
File_line(r, index) ==
    IF len_lines(r) <= index
    THEN [some |-> FALSE, v |-> << >>]
    ELSE [some |-> TRUE, v |-> trim_end_matches(rope_line(r, index))]

\* Option::unwrap_or_default on a line
unwrap_or_default(o) == IF o.some THEN o.v ELSE << >>

\* File::insert
File_insert(r, line, col, c) ==
    IF line >= len_lines(r) THEN r
    ELSE LET line_len == len_chars(rope_line(r, line)) IN
         IF col > line_len THEN r
         ELSE insert_char(r, line_to_char(r, line) + col, c)

\* File::delete
File_delete(r, line, col) ==
    IF line >= len_lines(r) THEN r
    ELSE LET line_len == len_chars(rope_line(r, line)) IN
         IF col = 0
         THEN IF line > 0
              THEN LET l == line_to_char(r, line) IN remove(r, l - 1, l)
              ELSE r
         ELSE IF col <= line_len
              THEN LET char_idx == line_to_char(r, line) + col - 1
                   IN  remove(r, char_idx, char_idx + 1)
              ELSE r

\* File::split_line
File_split_line(r, line, col) ==
    IF line >= len_lines(r) THEN r
    ELSE LET line_len == len_chars(rope_line(r, line)) IN
         IF col > line_len THEN r
         ELSE insert_char(r, line_to_char(r, line) + col, NL)

\* File::delete_line: line_to_char(line + 1) panics when line + 1 > len_lines,
\* before anything is removed.
File_delete_line(r, line) ==
    IF line + 1 > len_lines(r)
    THEN [content |-> r, panic |-> TRUE]
    ELSE [content |-> remove(r, line_to_char(r, line), line_to_char(r, line + 1)),
          panic |-> FALSE]

\* ------------------------------------------------------------------ integers

\* isize addition that wraps around instead of saturating.
wrapping_add(a, b) ==
    IF a + b > IsizeMax THEN a + b - 2 * IsizeMax - 2
    ELSE IF a + b < -IsizeMax - 1 THEN a + b + 2 * IsizeMax + 2
    ELSE a + b

\* isize::saturating_add
saturating_add(a, b) ==
    IF a + b > IsizeMax THEN IsizeMax
    ELSE IF a + b < -IsizeMax - 1 THEN -IsizeMax - 1
    ELSE a + b

\* `n as usize` of an isize: a negative value wraps around.
as_usize(n) == IF n < 0 THEN n + 2 * IsizeMax + 2 ELSE n

\* `n as isize` of a usize: a value above isize::MAX wraps to a negative one.
as_isize(n) == IF n > IsizeMax THEN n - 2 * IsizeMax - 2 ELSE n

\* ------------------------------------------------------------------ View

\* View::from(String) / View::new: the window at the origin of the text.
View_from(text, h, w) ==
    [content |-> text, start_line |-> 0, start_col |-> 0,
     height |-> h, width |-> w, cursor |-> <<0, 0>>]

\* View::navigate_y leaving the cursor one row below the window when it scrolls
\* down (view_height instead of view_height - 1).
navigate_y_below_window(v, dy) ==
    LET y == v.cursor[2]
        file_height == as_isize(File_len(v.content))
        view_height == as_isize(v.height)
        top == as_isize(v.start_line)
        abs_y == Min(Max(saturating_add(saturating_add(as_isize(y), dy), top), 0),
                     file_height - 1)
        rel_y == abs_y - top
    IN  IF rel_y < 0
        THEN [v |-> [v EXCEPT !.start_line = as_usize(top + rel_y),
                              !.cursor = <<v.cursor[1], 0>>],
              scrolled |-> TRUE]
        ELSE IF rel_y >= view_height
        THEN [v |-> [v EXCEPT
                  !.start_line = as_usize(Max(Min(top + rel_y - view_height + 1,
                                                  file_height - view_height), 0)),
                  !.cursor = <<v.cursor[1], as_usize(view_height)>>],
              scrolled |-> TRUE]
        ELSE [v |-> [v EXCEPT !.cursor = <<v.cursor[1], as_usize(rel_y)>>],
              scrolled |-> FALSE]

\* View::navigate_y
navigate_y(v, dy) ==
    LET y == v.cursor[2]
        file_height == as_isize(File_len(v.content))
        view_height == as_isize(v.height)
        top == as_isize(v.start_line)
        abs_y == Min(Max(saturating_add(saturating_add(as_isize(y), dy), top), 0),
                     file_height - 1)
        rel_y == abs_y - top
    IN  IF rel_y < 0
        THEN [v |-> [v EXCEPT !.start_line = as_usize(top + rel_y),
                              !.cursor = <<v.cursor[1], 0>>],
              scrolled |-> TRUE]
        ELSE IF rel_y >= view_height
        THEN [v |-> [v EXCEPT
                  !.start_line = as_usize(Max(Min(top + rel_y - view_height + 1,
                                                  file_height - view_height), 0)),
                  !.cursor = <<v.cursor[1],
                               as_usize(Min(view_height - 1, file_height - 1))>>],
              scrolled |-> TRUE]
        ELSE [v |-> [v EXCEPT !.cursor = <<v.cursor[1], as_usize(rel_y)>>],
              scrolled |-> FALSE]

\* View::navigate_x scrolling right by a whole window: the target column
\* becomes the first column shown.
navigate_x_page(v, dx) ==
    LET x == v.cursor[1]
        y == v.cursor[2]
        line_len == Len(unwrap_or_default(File_line(v.content, y + v.start_line)))
        left == as_isize(v.start_col)
        width == as_isize(v.width)
        abs_x == Min(Max(saturating_add(saturating_add(as_isize(x), dx), left), 0),
                     line_len)
        rel_x == abs_x - left
    IN  IF rel_x < 0
        THEN [v |-> [v EXCEPT !.start_col = as_usize(Max(left + rel_x, 0)),
                              !.cursor = <<0, y>>],
              scrolled |-> TRUE]
        ELSE IF rel_x >= width
        THEN [v |-> [v EXCEPT !.start_col = as_usize(abs_x), !.cursor = <<0, y>>],
              scrolled |-> TRUE]
        ELSE [v |-> [v EXCEPT !.cursor = <<as_usize(rel_x), y>>],
              scrolled |-> FALSE]

\* View::navigate_x
navigate_x(v, dx) ==
    LET x == v.cursor[1]
        y == v.cursor[2]
        line_len == Len(unwrap_or_default(File_line(v.content, y + v.start_line)))
        left == as_isize(v.start_col)
        width == as_isize(v.width)
        abs_x == Min(Max(saturating_add(saturating_add(as_isize(x), dx), left), 0),
                     line_len)
        rel_x == abs_x - left
    IN  IF rel_x < 0
        THEN [v |-> [v EXCEPT !.start_col = as_usize(Max(left + rel_x, 0)),
                              !.cursor = <<0, y>>],
              scrolled |-> TRUE]
        ELSE IF rel_x >= width
        THEN [v |-> [v EXCEPT
                  !.start_col = as_usize(Max(Min(left + rel_x, line_len) - width + 1, 0)),
                  !.cursor = <<as_usize(width - 1), y>>],
              scrolled |-> TRUE]
        ELSE [v |-> [v EXCEPT !.cursor = <<as_usize(rel_x), y>>],
              scrolled |-> FALSE]

\* View::navigate moving the column first: the column is clamped to the length
\* of the line the cursor leaves, not of the line it lands on.
View_navigate_column_first(v, dx, dy) ==
    LET nx == navigate_x(v, dx)
        ny == navigate_y(nx.v, dy)
    IN  [v |-> ny.v, scrolled |-> nx.scrolled \/ ny.scrolled, panic |-> FALSE]

\* View::navigate: first the line, then the column (on the new line).
View_navigate(v, dx, dy) ==
    LET ny == navigate_y(v, dy)
        nx == navigate_x(ny.v, dx)
    IN  [v |-> nx.v, scrolled |-> nx.scrolled \/ ny.scrolled, panic |-> FALSE]

\* View::line: row `index` of the window. The slice line[start..end] panics
\* when start > end.
View_line(v, index) ==
    LET o == File_line(v.content, index + v.start_line) IN
    IF o.some
    THEN LET start == v.start_col
             end == Min(start + v.width, Len(o.v))
         IN  IF start > end
             THEN [v |-> << >>, panic |-> TRUE]
             ELSE [v |-> SubSeq(o.v, start + 1, end), panic |-> FALSE]
    ELSE [v |-> << >>, panic |-> FALSE]

\* The absolute position of the cursor in the file.
abs_cursor(v) == <<v.cursor[1] + v.start_col, v.cursor[2] + v.start_line>>

\* View::insert leaving the cursor where it was, before the character.
View_insert_stay(v, c) ==
    LET x == abs_cursor(v)[1]
        y == abs_cursor(v)[2]
    IN  View_navigate([v EXCEPT !.content = File_insert(v.content, y, x, c)], 0, 0)

\* View::insert
View_insert(v, c) ==
    LET x == abs_cursor(v)[1]
        y == abs_cursor(v)[2]
    IN  View_navigate([v EXCEPT !.content = File_insert(v.content, y, x, c)], 1, 0)

\* View::insert_new_line keeping the column on the new line.
View_insert_new_line_keep_column(v) ==
    LET x == abs_cursor(v)[1]
        y == abs_cursor(v)[2]
    IN  View_navigate([v EXCEPT !.content = File_split_line(v.content, y, x)], 0, 1)

\* View::insert_new_line leaving the cursor on the line it split.
View_insert_new_line_same_row(v) ==
    LET x == abs_cursor(v)[1]
        y == abs_cursor(v)[2]
    IN  View_navigate([v EXCEPT !.content = File_split_line(v.content, y, x)],
                      -as_isize(x), 0)

\* View::insert_new_line
View_insert_new_line(v) ==
    LET x == abs_cursor(v)[1]
        y == abs_cursor(v)[2]
    IN  View_navigate([v EXCEPT !.content = File_split_line(v.content, y, x)],
                      -as_isize(x), 1)

\* View::delete reading the length of the previous line after the deletion:
\* after a join it is the length of the joined line.
View_delete_len_after(v) ==
    LET x == abs_cursor(v)[1]
        y == abs_cursor(v)[2]
        deleted == [v EXCEPT !.content = File_delete(v.content, y, x)]
        prev_line_len ==
            Len(unwrap_or_default(File_line(deleted.content, IF y > 0 THEN y - 1 ELSE 0)))
    IN  IF x > 0
        THEN View_navigate(deleted, -1, 0)
        ELSE View_navigate(deleted, as_isize(prev_line_len), -1)

\* View::delete
View_delete(v) ==
    LET x == abs_cursor(v)[1]
        y == abs_cursor(v)[2]
        prev_line_len ==
            Len(unwrap_or_default(File_line(v.content, IF y > 0 THEN y - 1 ELSE 0)))
        deleted == [v EXCEPT !.content = File_delete(v.content, y, x)]
    IN  IF x > 0
        THEN View_navigate(deleted, -1, 0)
        ELSE View_navigate(deleted, as_isize(prev_line_len), -1)

\* View::delete_line: a panic of File::delete_line leaves the view as it was.
View_delete_line(v) ==
    LET x == abs_cursor(v)[1]
        y == abs_cursor(v)[2]
        d == File_delete_line(v.content, y)
    IN  IF d.panic
        THEN [v |-> v, scrolled |-> FALSE, panic |-> TRUE]
        ELSE View_navigate([v EXCEPT !.content = d.content], -as_isize(x), 0)

\* ------------------------------------------------------------------ Command

\* A Command: its variant and the variant's fields (0, "" or << >> where the
\* variant has none). `some` tells Rename(Some(c)) from Rename(None).
Cmd(op, dx, dy, some, c, cmds) ==
    [op |-> op, dx |-> dx, dy |-> dy, some |-> some, c |-> c, cmds |-> cmds]

Quit == Cmd("Quit", 0, 0, FALSE, "", << >>)
Move(dx, dy) == Cmd("Move", dx, dy, FALSE, "", << >>)
Save == Cmd("Save", 0, 0, FALSE, "", << >>)
Rename(some, c) == Cmd("Rename", 0, 0, some, c, << >>)
ToggleMode == Cmd("ToggleMode", 0, 0, FALSE, "", << >>)
ToggleRename == Cmd("ToggleRename", 0, 0, FALSE, "", << >>)
Insert(c) == Cmd("Insert", 0, 0, FALSE, c, << >>)
Delete == Cmd("Delete", 0, 0, FALSE, "", << >>)
InsertNewLine == Cmd("InsertNewLine", 0, 0, FALSE, "", << >>)
CommandBlock(cmds) == Cmd("CommandBlock", 0, 0, FALSE, "", cmds)
DeleteLine == Cmd("DeleteLine", 0, 0, FALSE, "", << >>)

\* ------------------------------------------------------------------ RefreshOrder

\* A RefreshOrder: its variant and, for Lines, the set of window rows.
Order(kind, lines) == [kind |-> kind, lines |-> lines]

Terminate == Order("Terminate", {})
RefreshNone == Order("None", {})
CursorPos == Order("CursorPos", {})
Lines(s) == Order("Lines", s)
StatusBar == Order("StatusBar", {})
GitIndicators == Order("GitIndicators", {})
AllLines == Order("AllLines", {})
Resize == Order("Resize", {})

\* ------------------------------------------------------------------ Editor

\* The editor state a command acts on.
Ed(v, m, n) == [view |-> v, mode |-> m, file_name |-> n]

\* Editor::execute returning CursorPos where it returns the rows of Lines.
Result_cursor_only(ed, order) ==
    [ed |-> ed, order |-> IF order.kind = "Lines" THEN CursorPos ELSE order,
     panic |-> FALSE, underflow |-> FALSE]

\* What Editor::execute leaves: the editor, the order returned, whether it
\* panicked, and whether `cursor.1 - 1` went below zero (a panic in a build
\* with overflow checks; a wrap to an empty range of lines without them).
Result(ed, order) == [ed |-> ed, order |-> order, panic |-> FALSE, underflow |-> FALSE]

\* Editor::toggle_mode going from Rename to Insert instead of Normal.
toggle_mode_to_insert(m) ==
    CASE m = "Normal" -> "Insert"
      [] m = "Insert" -> "Normal"
      [] m = "Rename" -> "Insert"

\* Editor::toggle_mode
toggle_mode(m) ==
    CASE m = "Normal" -> "Insert"
      [] m = "Insert" -> "Normal"
      [] m = "Rename" -> "Normal"

\* Editor::toggle_rename
toggle_rename(m) ==
    CASE m = "Normal" -> "Rename"
      [] m = "Rename" -> "Normal"
      [] OTHER -> "Normal"

\* Editor::rename appending every character as it is.
rename_keep_char(name, some, c) ==
    IF ~some
    THEN IF Len(name) = 0 THEN name ELSE SubSeq(name, 1, Len(name) - 1)
    ELSE Append(name, c)

\* Editor::rename: pop the last character, or append c ('_' for a space or an
\* apostrophe).
rename(name, some, c) ==
    IF ~some
    THEN IF Len(name) = 0 THEN name ELSE SubSeq(name, 1, Len(name) - 1)
    ELSE IF c \in {" ", "'"} THEN Append(name, "_") ELSE Append(name, c)

\* The fold step of a CommandBlock forgetting the rows merged so far: two
\* Lines give the rows of the second only.
merge_last_lines(refr, r) ==
    IF refr.kind = "None" THEN r
    ELSE IF r.kind = "None" THEN refr
    ELSE IF refr.kind = "Lines" /\ r.kind = "Lines" THEN Lines(r.lines)
    ELSE AllLines

\* The fold step of a CommandBlock keeping the rows of the first Lines only.
merge_first_lines(refr, r) ==
    IF refr.kind = "None" THEN r
    ELSE IF r.kind = "None" THEN refr
    ELSE IF refr.kind = "Lines" /\ r.kind = "Lines" THEN Lines(refr.lines)
    ELSE AllLines

\* The fold step of a CommandBlock without the arm (r, None): an intent
\* followed by None gives AllLines.
merge_left_identity_only(refr, r) ==
    IF refr.kind = "None" THEN r
    ELSE IF refr.kind = "Lines" /\ r.kind = "Lines" THEN Lines(refr.lines \cup r.lines)
    ELSE AllLines

\* The fold step of a CommandBlock: the match on (refr, self.execute(cmd)).
merge(refr, r) ==
    IF refr.kind = "None" THEN r
    ELSE IF r.kind = "None" THEN refr
    ELSE IF refr.kind = "Lines" /\ r.kind = "Lines" THEN Lines(refr.lines \cup r.lines)
    ELSE AllLines

\* Editor::execute. A CommandBlock folds its children from RefreshOrder::None;
\* a panic stops the fold where it happens.
RECURSIVE execute(_, _)
RECURSIVE fold(_, _, _)
execute(ed, cmd) ==
    CASE cmd.op = "Quit" -> Result(ed, Terminate)
      [] cmd.op = "Move" ->
            LET r == View_navigate(ed.view, cmd.dx, cmd.dy)
            IN  Result([ed EXCEPT !.view = r.v],
                       IF r.scrolled THEN AllLines ELSE CursorPos)
      [] cmd.op = "Save" -> Result(ed, StatusBar)
      [] cmd.op = "Rename" ->
            Result([ed EXCEPT !.file_name = rename(ed.file_name, cmd.some, cmd.c)],
                   StatusBar)
      [] cmd.op = "ToggleMode" ->
            Result([ed EXCEPT !.mode = toggle_mode(ed.mode)], StatusBar)
      [] cmd.op = "ToggleRename" ->
            Result([ed EXCEPT !.mode = toggle_rename(ed.mode)], StatusBar)
      [] cmd.op = "Insert" ->
            LET r == View_insert(ed.view, cmd.c)
            IN  Result([ed EXCEPT !.view = r.v],
                       IF r.scrolled THEN AllLines ELSE Lines({r.v.cursor[2]}))
      [] cmd.op = "InsertNewLine" ->
            LET r == View_insert_new_line(ed.view)
                under == ~r.scrolled /\ r.v.cursor[2] = 0
            IN  [Result([ed EXCEPT !.view = r.v],
                        IF r.scrolled THEN AllLines
                        ELSE IF under THEN Lines({})
                        ELSE Lines((r.v.cursor[2] - 1)..(r.v.height - 1)))
                 EXCEPT !.underflow = under]
      [] cmd.op = "Delete" ->
            LET r == View_delete(ed.view)
            IN  Result([ed EXCEPT !.view = r.v],
                       IF r.scrolled THEN AllLines
                       ELSE Lines(r.v.cursor[2]..(r.v.height - 1)))
      [] cmd.op = "CommandBlock" -> fold(ed, cmd.cmds, RefreshNone)
      [] cmd.op = "DeleteLine" ->
            LET r == View_delete_line(ed.view)
            IN  [Result([ed EXCEPT !.view = r.v], AllLines) EXCEPT !.panic = r.panic]

fold(ed, cmds, refr) ==
    IF cmds = << >> THEN Result(ed, refr)
    ELSE LET r == execute(ed, Head(cmds)) IN
         IF r.panic THEN r
         ELSE LET rest == fold(r.ed, Tail(cmds), merge(refr, r.order))
              IN  [rest EXCEPT !.underflow = r.underflow \/ rest.underflow]

\* ------------------------------------------------------------------ calls

\* The texts a File can be built from: every text of at most MaxChars chars.
Texts == UNION {[1..n -> Chars] : n \in 0..MaxChars}

\* The record of a call: its name, its arguments (0 or "" where it has none),
\* the view before it and whether it reported a scroll.
Call(op, line, col, c, dx, dy, pre, scrolled) ==
    [op |-> op, line |-> line, col |-> col, c |-> c, dx |-> dx, dy |-> dy,
     pre |-> pre, scrolled |-> scrolled]

\* No call yet (the view before it is a placeholder).
NoCall == Call("none", 0, 0, "", 0, 0, View_from(<< >>, 0, 0), FALSE)

\* The record of an execute: the command, the editor before it, the order it
\* returned.
Exec(cmd, pre, order) == [cmd |-> cmd, pre |-> pre, order |-> order]

\* The name the file is opened under.
InitName == <<"f">>

\* Nothing executed yet (the editor before it is a placeholder).
NoExec == Exec(Cmd("none", 0, 0, FALSE, "", << >>),
               Ed(View_from(<< >>, 0, 0), "Normal", InitName), RefreshNone)

\* Option<Diff>: None, or Some of the patches (one patch of n added lines).
DiffNone == [some |-> FALSE, n |-> 0]
DiffSome(n) == [some |-> TRUE, n |-> n]

Mutexes == {"view", "diff", "mode", "file_name"}

\* No mutex held, none poisoned, nothing sent, no key read.
Unlocked ==
    /\ diff = DiffNone
    /\ chan = << >>
    /\ holder = [m \in Mutexes |-> "free"]
    /\ poisoned = {}
    /\ stack = << >>
    /\ tui_order = RefreshNone
    /\ new_diff = DiffNone
    /\ nkeys = 0
    /\ proc = "running"

\* The editor with no thread started: execute is called directly.
NoThreads ==
    /\ Unlocked
    /\ git_ref = FALSE
    /\ term = <<view.width, view.height>>
    /\ pc = [input |-> "off", tui |-> "off", git |-> "off"]

\* Editor::split_path_name of a bare file name: the directory is "./".
InitPath == <<".", "/">>

\* No file at all: an empty function of paths.
EmptyDisk == [p \in {} |-> << >>]

\* The editor in "./" with the file system left out: the specifications of the
\* calls, of execute, of the keys and of the threads write nothing to it.
NoDisk ==
    /\ file_path = InitPath
    /\ disk = EmptyDisk

\* Editor::open / Editor::new around a view: Normal mode, nothing executed.
InitEditor ==
    /\ mode = "Normal"
    /\ file_name = InitName
    /\ NoDisk
    /\ exec = NoExec
    /\ NoThreads

editor_vars == <<mode, file_name, exec, thread_vars, fs_vars>>

\* File::from_string (a tab-free text) or File::new, in a view that is not used.
InitFile ==
    /\ \E t \in Texts : view = View_from(t, 1, 1)
    /\ last = NoCall
    /\ panicked = FALSE
    /\ InitEditor

\* file.insert(line, col, c), any arguments.
FileInsert ==
    \E line \in 0..MaxArg, col \in 0..MaxArg, c \in Chars :
        /\ ~panicked
        /\ Len(view.content) < MaxChars
        /\ view' = [view EXCEPT !.content = File_insert(view.content, line, col, c)]
        /\ last' = Call("insert", line, col, c, 0, 0, view, FALSE)
        /\ UNCHANGED <<panicked, editor_vars>>

\* file.delete(line, col), any arguments.
FileDelete ==
    \E line \in 0..MaxArg, col \in 0..MaxArg :
        /\ ~panicked
        /\ view' = [view EXCEPT !.content = File_delete(view.content, line, col)]
        /\ last' = Call("delete", line, col, "", 0, 0, view, FALSE)
        /\ UNCHANGED <<panicked, editor_vars>>

\* file.split_line(line, col), any arguments.
FileSplitLine ==
    \E line \in 0..MaxArg, col \in 0..MaxArg :
        /\ ~panicked
        /\ Len(view.content) < MaxChars
        /\ view' = [view EXCEPT !.content = File_split_line(view.content, line, col)]
        /\ last' = Call("split_line", line, col, "", 0, 0, view, FALSE)
        /\ UNCHANGED <<panicked, editor_vars>>

\* file.delete_line(line), any argument.
FileDeleteLine ==
    \E line \in 0..MaxArg :
        LET d == File_delete_line(view.content, line) IN
        /\ ~panicked
        /\ view' = [view EXCEPT !.content = d.content]
        /\ last' = Call("delete_line", line, 0, "", 0, 0, view, FALSE)
        /\ panicked' = d.panic
        /\ UNCHANGED editor_vars

NextFile == FileInsert \/ FileDelete \/ FileSplitLine \/ FileDeleteLine

\* The File under any sequence of calls with any arguments.
SpecFile == InitFile /\ [][NextFile]_vars

\* The moves tried: unit steps and the +/-isize::MAX sentinels.
Deltas == {-IsizeMax, -1, 0, 1, IsizeMax}

\* A view of a text with a window of at least one row and one column.
InitView ==
    /\ \E t \in Texts, h \in 1..MaxDim, w \in 1..MaxDim : view = View_from(t, h, w)
    /\ last = NoCall
    /\ panicked = FALSE
    /\ InitEditor

\* The effect of a View call that returned r.
Returned(op, c, dx, dy, ret) ==
    \E r \in {ret} :
        /\ view' = r.v
        /\ last' = Call(op, 0, 0, c, dx, dy, view, r.scrolled)
        /\ panicked' = r.panic
        /\ UNCHANGED editor_vars

\* view.navigate(dx, dy)
ViewNavigate ==
    \E dx \in Deltas, dy \in Deltas :
        /\ ~panicked
        /\ Returned("navigate", "", dx, dy, View_navigate(view, dx, dy))

\* view.insert(c)
ViewInsert ==
    \E c \in Glyphs :
        /\ ~panicked
        /\ Len(view.content) < MaxChars
        /\ Returned("insert", c, 0, 0, View_insert(view, c))

\* view.insert_new_line()
ViewInsertNewLine ==
    /\ ~panicked
    /\ Len(view.content) < MaxChars
    /\ Returned("insert_new_line", "", 0, 0, View_insert_new_line(view))

\* view.delete()
ViewDelete ==
    /\ ~panicked
    /\ Returned("delete", "", 0, 0, View_delete(view))

\* view.delete_line()
ViewDeleteLine ==
    /\ ~panicked
    /\ Returned("delete_line", "", 0, 0, View_delete_line(view))

NextView == ViewNavigate \/ ViewInsert \/ ViewInsertNewLine \/ ViewDelete \/ ViewDeleteLine

\* The View under any sequence of its write and navigation calls.
SpecView == InitView /\ [][NextView]_vars

\* A view whose window has no row or no column: the view as Editor::open
\* builds it (View::new(content, 0, 0)), or sized to a terminal that leaves no
\* room for the text.
InitZero ==
    /\ \E t \in Texts, h \in 0..MaxDim, w \in 0..MaxDim :
           /\ h = 0 \/ w = 0
           /\ view = View_from(t, h, w)
    /\ last = NoCall
    /\ panicked = FALSE
    /\ InitEditor

\* The View calls on a window of no size.
SpecZero == InitZero /\ [][NextView]_vars

\* ------------------------------------------------------------------ execute

\* Longest file name.
MaxName == 1

\* The commands that are no CommandBlock, with sample arguments.
Primitives ==
    {Quit, Save, ToggleMode, ToggleRename, Delete, InsertNewLine, DeleteLine,
     Rename(FALSE, ""), Rename(TRUE, "x"), Rename(TRUE, " ")}
    \cup {Move(d, 0) : d \in Deltas \ {0}} \cup {Move(0, d) : d \in {-1, 1}}
    \cup {Insert(c) : c \in Glyphs}

\* The CommandBlocks of the key bindings (I, a, A, o, O, tab) and blocks that
\* nest blocks, the empty block included.
Blocks ==
    {CommandBlock(<<Move(-IsizeMax, 0), ToggleMode>>),
     CommandBlock(<<Move(1, 0), ToggleMode>>),
     CommandBlock(<<Move(IsizeMax, 0), ToggleMode>>),
     CommandBlock(<<Move(IsizeMax, 0), InsertNewLine, ToggleMode>>),
     CommandBlock(<<Move(-IsizeMax, 0), InsertNewLine, Move(0, -1), ToggleMode>>),
     CommandBlock(<<Insert(" "), Insert(" "), Insert(" "), Insert(" ")>>),
     CommandBlock(<< >>),
     CommandBlock(<<Move(1, 0), CommandBlock(<< >>)>>),
     CommandBlock(<<CommandBlock(<< >>), Insert("a")>>),
     CommandBlock(<<Delete, Insert("a")>>),
     CommandBlock(<<Insert("a"), CommandBlock(<<InsertNewLine, Insert("b")>>)>>),
     CommandBlock(<<CommandBlock(<<Delete, CommandBlock(<<Move(0, -1)>>)>>), Delete>>),
     CommandBlock(<<CommandBlock(<<Rename(TRUE, "x")>>), ToggleRename,
                    CommandBlock(<<Save, Move(0, 1)>>)>>),
     CommandBlock(<<Quit, CommandBlock(<<DeleteLine>>)>>)}

\* The characters a command inserts into the text.
RECURSIVE Growth(_)
RECURSIVE GrowthAll(_)
Growth(cmd) ==
    IF cmd.op \in {"Insert", "InsertNewLine"} THEN 1
    ELSE IF cmd.op = "CommandBlock" THEN GrowthAll(cmd.cmds)
    ELSE 0
GrowthAll(cmds) ==
    IF cmds = << >> THEN 0 ELSE Growth(Head(cmds)) + GrowthAll(Tail(cmds))

\* The characters a command appends to the file name.
RECURSIVE NameGrowth(_)
RECURSIVE NameGrowthAll(_)
NameGrowth(cmd) ==
    IF cmd.op = "Rename" /\ cmd.some THEN 1
    ELSE IF cmd.op = "CommandBlock" THEN NameGrowthAll(cmd.cmds)
    ELSE 0
NameGrowthAll(cmds) ==
    IF cmds = << >> THEN 0 ELSE NameGrowth(Head(cmds)) + NameGrowthAll(Tail(cmds))

\* editor.execute(cmd) on the input thread alone: the command runs to its end.
\* exec holds the one execute under observation, with the editor it started
\* from; a run is followed up to its observed execute.
Execute ==
    \E cmd \in Primitives \cup Blocks :
        /\ ~panicked
        /\ exec = NoExec
        /\ Len(view.content) + Growth(cmd) <= MaxChars
        /\ Len(file_name) + NameGrowth(cmd) <= MaxName
        /\ \E r \in {execute(Ed(view, mode, file_name), cmd)} :
               /\ view' = r.ed.view
               /\ mode' = r.ed.mode
               /\ file_name' = r.ed.file_name
               /\ \E observed \in BOOLEAN :
                      exec' = IF observed
                              THEN Exec(cmd, Ed(view, mode, file_name), r.order)
                              ELSE NoExec
               /\ \E overflow_checks \in BOOLEAN :
                      panicked' = (r.panic \/ (r.underflow /\ overflow_checks))
        /\ UNCHANGED <<last, thread_vars, fs_vars>>

NextExec == Execute

\* The Editor under any sequence of commands, executed one after the other.
SpecExec == InitView /\ [][NextExec]_vars

\* ------------------------------------------------------------------ keys

\* The keys that are no character (Home stands for those no mode binds).
SpecialKeys == {"Esc", "Backspace", "Up", "Down", "Left", "Right", "Home"}

\* Result<Command, &str> of the decoder.
Ok(cmd) == [ok |-> TRUE, cmd |-> cmd]
Err == [ok |-> FALSE, cmd |-> Quit]

\* Command::parse_normal_mode with O bound to a block that does not move back
\* up: the cursor is left on the line pushed down.
parse_normal_mode_O_stays_below(key) ==
    CASE key = "i" -> Ok(ToggleMode)
      [] key = "I" -> Ok(CommandBlock(<<Move(-IsizeMax, 0), ToggleMode>>))
      [] key = "a" -> Ok(CommandBlock(<<Move(1, 0), ToggleMode>>))
      [] key = "A" -> Ok(CommandBlock(<<Move(IsizeMax, 0), ToggleMode>>))
      [] key = "o" -> Ok(CommandBlock(<<Move(IsizeMax, 0), InsertNewLine, ToggleMode>>))
      [] key = "O" -> Ok(CommandBlock(<<Move(-IsizeMax, 0), InsertNewLine,
                                        ToggleMode>>))
      [] key = "q" -> Ok(Quit)
      [] key \in {"j", "Down"} -> Ok(Move(0, 1))
      [] key \in {"k", "Up"} -> Ok(Move(0, -1))
      [] key \in {"h", "Left"} -> Ok(Move(-1, 0))
      [] key \in {"l", "Right"} -> Ok(Move(1, 0))
      [] key = "$" -> Ok(Move(IsizeMax, 0))
      [] key = "0" -> Ok(Move(-IsizeMax, 0))
      [] key = "w" -> Ok(Save)
      [] key = "R" -> Ok(ToggleRename)
      [] key = "d" -> Ok(DeleteLine)
      [] OTHER -> Err

\* Command::parse_normal_mode
parse_normal_mode(key) ==
    CASE key = "i" -> Ok(ToggleMode)
      [] key = "I" -> Ok(CommandBlock(<<Move(-IsizeMax, 0), ToggleMode>>))
      [] key = "a" -> Ok(CommandBlock(<<Move(1, 0), ToggleMode>>))
      [] key = "A" -> Ok(CommandBlock(<<Move(IsizeMax, 0), ToggleMode>>))
      [] key = "o" -> Ok(CommandBlock(<<Move(IsizeMax, 0), InsertNewLine, ToggleMode>>))
      [] key = "O" -> Ok(CommandBlock(<<Move(-IsizeMax, 0), InsertNewLine,
                                        Move(0, -1), ToggleMode>>))
      [] key = "q" -> Ok(Quit)
      [] key \in {"j", "Down"} -> Ok(Move(0, 1))
      [] key \in {"k", "Up"} -> Ok(Move(0, -1))
      [] key \in {"h", "Left"} -> Ok(Move(-1, 0))
      [] key \in {"l", "Right"} -> Ok(Move(1, 0))
      [] key = "$" -> Ok(Move(IsizeMax, 0))
      [] key = "0" -> Ok(Move(-IsizeMax, 0))
      [] key = "w" -> Ok(Save)
      [] key = "R" -> Ok(ToggleRename)
      [] key = "d" -> Ok(DeleteLine)
      [] OTHER -> Err

\* Command::parse_insert_mode_char
parse_insert_mode_char(c) ==
    CASE c = NL -> Ok(InsertNewLine)
      [] c = "\t" -> Ok(CommandBlock(<<Insert(" "), Insert(" "), Insert(" "), Insert(" ")>>))
      [] OTHER -> Ok(Insert(c))

\* Command::parse_insert_mode trying the Normal-mode bindings first: a
\* character that Normal mode binds is executed, not inserted.
parse_insert_mode_bound_first(key) ==
    CASE key = "Esc" -> Ok(ToggleMode)
      [] key \notin SpecialKeys ->
            IF parse_normal_mode(key).ok THEN parse_normal_mode(key)
            ELSE parse_insert_mode_char(key)
      [] key = "Backspace" -> Ok(Delete)
      [] key = "Right" -> Ok(Move(1, 0))
      [] key = "Left" -> Ok(Move(-1, 0))
      [] key = "Up" -> Ok(Move(0, -1))
      [] key = "Down" -> Ok(Move(0, 1))
      [] OTHER -> Err

\* Command::parse_insert_mode
parse_insert_mode(key) ==
    CASE key = "Esc" -> Ok(ToggleMode)
      [] key \notin SpecialKeys -> parse_insert_mode_char(key)
      [] key = "Backspace" -> Ok(Delete)
      [] key = "Right" -> Ok(Move(1, 0))
      [] key = "Left" -> Ok(Move(-1, 0))
      [] key = "Up" -> Ok(Move(0, -1))
      [] key = "Down" -> Ok(Move(0, 1))
      [] OTHER -> Err

\* Command::parse_rename_mode with the arrows of Insert mode bound.
parse_rename_mode_arrows(key) ==
    CASE key = "Backspace" -> Ok(Rename(FALSE, ""))
      [] key = NL -> Ok(ToggleMode)
      [] key \notin SpecialKeys /\ key # NL -> Ok(Rename(TRUE, key))
      [] key = "Right" -> Ok(Move(1, 0))
      [] key = "Left" -> Ok(Move(-1, 0))
      [] key = "Up" -> Ok(Move(0, -1))
      [] key = "Down" -> Ok(Move(0, 1))
      [] OTHER -> Err

\* Command::parse_rename_mode
parse_rename_mode(key) ==
    CASE key = "Backspace" -> Ok(Rename(FALSE, ""))
      [] key = NL -> Ok(ToggleMode)
      [] key \notin SpecialKeys /\ key # NL -> Ok(Rename(TRUE, key))
      [] OTHER -> Err

\* Command::parse
parse(key, m) ==
    CASE m = "Normal" -> parse_normal_mode(key)
      [] m = "Insert" -> parse_insert_mode(key)
      [] m = "Rename" -> parse_rename_mode(key)

\* ------------------------------------------------------------------ keys executed

\* The keys of the keyboard: every key that a mode binds, a letter and a
\* special key that no mode binds.
KeyPad ==
    {"q", "h", "l", "j", "k", "0", "$", "i", "I", "a", "A", "o", "O", "w", "R", "d",
     "b", "x", " ", "'", NL, "\t"} \cup SpecialKeys

\* The characters typed into the text (the glyphs) and into the file name.
TypedInText == Glyphs
TypedInName == {"x", " ", "'"}

\* A command types only characters of these sets.
RECURSIVE Typeable(_)
Typeable(cmd) ==
    CASE cmd.op = "Insert" -> cmd.c \in TypedInText
      [] cmd.op = "Rename" -> cmd.some => cmd.c \in TypedInName
      [] cmd.op = "CommandBlock" ->
            \A i \in 1..Len(cmd.cmds) : Typeable(cmd.cmds[i])
      [] OTHER -> TRUE

\* One turn of the loop of run() on the input thread alone: a key is decoded
\* under the current mode and its command, if any, executed to its end. last
\* and exec hold the one key under observation (a rejected key leaves the
\* command of NoExec); a run is followed up to its observed key.
KeyPress ==
    \E key \in KeyPad :
        /\ ~panicked
        /\ exec = NoExec /\ last = NoCall
        /\ \E p \in {parse(key, mode)}, ed \in {Ed(view, mode, file_name)} :
               /\ p.ok => /\ Typeable(p.cmd)
                          /\ Len(view.content) + Growth(p.cmd) <= MaxChars
                          /\ Len(file_name) + NameGrowth(p.cmd) <= MaxName
               /\ \E r \in {IF p.ok THEN execute(ed, p.cmd) ELSE Result(ed, RefreshNone)} :
                      /\ view' = r.ed.view
                      /\ mode' = r.ed.mode
                      /\ file_name' = r.ed.file_name
                      /\ \E observed \in BOOLEAN :
                             /\ exec' = IF observed
                                        THEN Exec(IF p.ok THEN p.cmd ELSE NoExec.cmd, ed, r.order)
                                        ELSE NoExec
                             /\ last' = IF observed
                                        THEN Call("key", 0, 0, key, 0, 0, view, p.ok)
                                        ELSE NoCall
                      /\ \E overflow_checks \in BOOLEAN :
                             panicked' = (r.panic \/ (r.underflow /\ overflow_checks))
        /\ UNCHANGED <<thread_vars, fs_vars>>

NextKeys == KeyPress

\* The Editor under any sequence of keys, each decoded and executed in turn.
SpecKeys == InitView /\ [][NextKeys]_vars

\* ------------------------------------------------------------------ threads

\* Keys read in a run, at most.
MaxKeys == 2
\* RefreshOrders waiting in the channel, at most.
MaxChan == 2
\* Resize orders waiting in the channel, at most.
MaxResize == 1

\* The keys typed: quit, save, delete line, open a line above (a block that
\* ends in Insert mode) and a letter that Normal mode rejects.
Keys == {"q", "w", "d", "O", "x"}

\* The text the editor is opened on.
OpenText == <<"a", NL, "b">>

\* The sizes the terminal is resized to, <<width, height>>: it shrinks and
\* grows in both directions at once.
TermSizes == {<<n, n>> : n \in 1..MaxDim}

\* View::resize
resize(v, height, width) == [v EXCEPT !.height = height, !.width = width]

\* compute_diff(...).ok() of a file that HEAD does not hold: one patch adding
\* all the lines of the text (at least one), or None when git or diff fails.
lines_count(text) ==
    IF text = << >> THEN 0
    ELSE IF text[Len(text)] = NL THEN len_lines(text) - 1 ELSE len_lines(text)
compute_diff(text) == {DiffNone, DiffSome(Max(1, lines_count(text)))}

\* A call of execute in progress: the commands still to run and, in a
\* CommandBlock, the order folded so far. The bottom frame is the call made by
\* run(): its one command, then the order that call returned.
Frame(cmds, refr) == [cmds |-> cmds, refr |-> refr]
Top == stack[Len(stack)]

\* The stack as the call of the top frame's first command begins.
Called(stk) == [stk EXCEPT ![Len(stk)].cmds = Tail(@)]

\* The stack as a call returns r to the frame now on top: run() keeps r, the
\* fold of a CommandBlock merges it.
Ret(stk, r) ==
    IF Len(stk) = 1 THEN <<Frame(<< >>, r)>>
    ELSE [stk EXCEPT ![Len(stk)].refr = merge(@, r)]

\* The mutex a command that is neither Save nor a block locks, if any.
LockOf(cmd) ==
    CASE cmd.op \in {"Move", "Insert", "InsertNewLine", "Delete", "DeleteLine"} -> "view"
      [] cmd.op \in {"ToggleMode", "ToggleRename"} -> "mode"
      [] cmd.op = "Rename" -> "file_name"
      [] OTHER -> "none"

\* A thread panics: the mutexes it holds are released poisoned.
Unwind(t, more) ==
    /\ holder' = [m \in Mutexes |-> IF holder[m] = t THEN "free" ELSE holder[m]]
    /\ poisoned' = poisoned \cup {m \in Mutexes : holder[m] = t} \cup more

seq_vars == <<last, exec, panicked, fs_vars>>

\* Editor::run after its three init calls: the view sized to the terminal (of
\* MaxDim rows and columns of text) and drawn, the tui thread waiting, the git thread (if HEAD has a name) started.
Init ==
    /\ view = View_from(OpenText, MaxDim, MaxDim)
    /\ term = <<MaxDim, MaxDim>>
    /\ mode = "Normal"
    /\ file_name = InitName
    /\ NoDisk
    /\ last = NoCall
    /\ exec = NoExec
    /\ panicked = FALSE
    /\ Unlocked
    /\ git_ref \in BOOLEAN
    /\ pc = [input |-> "read", tui |-> "recv", git |-> IF git_ref THEN "name" ELSE "off"]

\* ---- input thread (the main thread)

\* run() sending RefreshOrder::None for a key the decoder rejects.
ReadKey_posts_none ==
    \E key \in Keys :
        /\ proc = "running" /\ pc.input = "read" /\ nkeys < MaxKeys
        /\ holder["mode"] = "free"
        /\ nkeys' = nkeys + 1
        /\ IF "mode" \in poisoned
           THEN proc' = "aborted" /\ UNCHANGED <<pc, stack, chan>>
           ELSE LET p == parse(key, mode) IN
                /\ proc' = proc
                /\ IF p.ok
                   THEN /\ pc' = [pc EXCEPT !.input = "execute"]
                        /\ stack' = <<Frame(<<p.cmd>>, RefreshNone)>>
                        /\ chan' = chan
                   ELSE /\ chan' = Append(chan, RefreshNone)
                        /\ UNCHANGED <<pc, stack>>
        /\ UNCHANGED <<view, mode, file_name, seq_vars, git_ref, diff, term,
                       holder, poisoned, tui_order, new_diff>>

\* run(): the next key arrives, is decoded under the mode lock, and its
\* command is about to be executed; a key the decoder rejects is dropped.
ReadKey ==
    \E key \in Keys :
        /\ proc = "running" /\ pc.input = "read" /\ nkeys < MaxKeys
        /\ holder["mode"] = "free"
        /\ nkeys' = nkeys + 1
        /\ IF "mode" \in poisoned
           THEN proc' = "aborted" /\ UNCHANGED <<pc, stack>>
           ELSE LET p == parse(key, mode) IN
                /\ proc' = proc
                /\ IF p.ok
                   THEN /\ pc' = [pc EXCEPT !.input = "execute"]
                        /\ stack' = <<Frame(<<p.cmd>>, RefreshNone)>>
                   ELSE UNCHANGED <<pc, stack>>
        /\ UNCHANGED <<view, mode, file_name, seq_vars, git_ref, diff, term, chan,
                       holder, poisoned, tui_order, new_diff>>

\* execute of a command that takes at most one lock: the lock is taken, the
\* command done and the lock dropped. A poisoned lock panics the main thread.
InputExecute ==
    /\ proc = "running" /\ pc.input = "execute" /\ Top.cmds # << >>
    /\ LET cmd == Head(Top.cmds)
           l == LockOf(cmd)
       IN  /\ cmd.op \notin {"CommandBlock", "Save"}
           /\ l # "none" => holder[l] = "free"
           /\ IF l \in poisoned
              THEN proc' = "aborted" /\ UNCHANGED <<view, mode, file_name, stack>>
              ELSE \E r \in {execute(Ed(view, mode, file_name), cmd)} :
                   /\ view' = r.ed.view
                   /\ mode' = r.ed.mode
                   /\ file_name' = r.ed.file_name
                   /\ stack' = Ret(Called(stack), r.order)
                   /\ \E overflow_checks \in BOOLEAN :
                          proc' = IF r.panic \/ (r.underflow /\ overflow_checks)
                                  THEN "aborted" ELSE proc
    /\ UNCHANGED <<seq_vars, git_ref, diff, term, chan, holder, poisoned, pc,
                   tui_order, new_diff, nkeys>>

\* execute(CommandBlock(cmds)): the fold starts from RefreshOrder::None.
InputBlock ==
    /\ proc = "running" /\ pc.input = "execute" /\ Top.cmds # << >>
    /\ Head(Top.cmds).op = "CommandBlock"
    /\ stack' = Append(Called(stack), Frame(Head(Top.cmds).cmds, RefreshNone))
    /\ UNCHANGED <<view, mode, file_name, seq_vars, git_ref, diff, term, chan,
                   holder, poisoned, pc, tui_order, new_diff, nkeys, proc>>

\* The fold of a CommandBlock ends: execute returns the order folded.
InputReturn ==
    /\ proc = "running" /\ pc.input = "execute"
    /\ Len(stack) > 1 /\ Top.cmds = << >>
    /\ stack' = Ret(SubSeq(stack, 1, Len(stack) - 1), Top.refr)
    /\ UNCHANGED <<view, mode, file_name, seq_vars, git_ref, diff, term, chan,
                   holder, poisoned, pc, tui_order, new_diff, nkeys, proc>>

\* save(): the file_name lock is taken; an empty name returns at once.
SaveLockName ==
    /\ proc = "running" /\ pc.input = "execute" /\ Top.cmds # << >>
    /\ Head(Top.cmds).op = "Save"
    /\ holder["file_name"] = "free"
    /\ IF "file_name" \in poisoned
       THEN proc' = "aborted" /\ UNCHANGED <<holder, pc, stack>>
       ELSE /\ proc' = proc
            /\ IF file_name = << >>
               THEN /\ stack' = Ret(Called(stack), StatusBar)
                    /\ UNCHANGED <<holder, pc>>
               ELSE /\ holder' = [holder EXCEPT !["file_name"] = "input"]
                    /\ pc' = [pc EXCEPT !.input = "save_view"]
                    /\ stack' = stack
    /\ UNCHANGED <<view, mode, file_name, seq_vars, git_ref, diff, term, chan,
                   poisoned, tui_order, new_diff, nkeys>>

\* save(): under the file_name lock the view lock is taken, the text dumped
\* and written, and both locks dropped.
SaveLockView ==
    /\ proc = "running" /\ pc.input = "save_view"
    /\ holder["view"] = "free"
    /\ IF "view" \in poisoned
       THEN proc' = "aborted" /\ UNCHANGED <<holder, pc, stack>>
       ELSE /\ proc' = proc
            /\ holder' = [holder EXCEPT !["file_name"] = "free"]
            /\ pc' = [pc EXCEPT !.input = "execute"]
            /\ stack' = Ret(Called(stack), StatusBar)
    /\ UNCHANGED <<view, mode, file_name, seq_vars, git_ref, diff, term, chan,
                   poisoned, tui_order, new_diff, nkeys>>

\* run(): refresh_sender.send(refresh_order).unwrap(); the send fails, and the
\* main thread panics, once the tui thread has dropped the receiver.
InputSend ==
    /\ proc = "running" /\ pc.input = "execute"
    /\ Len(stack) = 1 /\ Top.cmds = << >>
    /\ IF pc.tui = "dead"
       THEN proc' = "aborted" /\ UNCHANGED <<chan, pc, stack>>
       ELSE /\ Len(chan) < MaxChan
            /\ chan' = Append(chan, Top.refr)
            /\ pc' = [pc EXCEPT !.input = "read"]
            /\ stack' = << >>
            /\ proc' = proc
    /\ UNCHANGED <<view, mode, file_name, seq_vars, git_ref, diff, term, holder,
                   poisoned, tui_order, new_diff, nkeys>>

\* ---- resize signal

\* SIGWINCH: the terminal has a new size and the handler sends Resize (the
\* failure of the send is ignored).
ResizeSignal ==
    \E size \in TermSizes :
        /\ proc = "running"
        /\ Len(chan) < MaxChan
        /\ Cardinality({i \in 1..Len(chan) : chan[i] = Resize}) < MaxResize
        /\ term' = size
        /\ chan' = IF pc.tui = "dead" THEN chan ELSE Append(chan, Resize)
        /\ UNCHANGED <<view, mode, file_name, seq_vars, git_ref, diff, holder,
                       poisoned, pc, stack, tui_order, new_diff, nkeys, proc>>

\* ---- tui thread

\* refresh_receiver.recv()
TuiRecv ==
    /\ proc = "running" /\ pc.tui = "recv"
    /\ chan # << >>
    /\ tui_order' = Head(chan)
    /\ chan' = Tail(chan)
    /\ pc' = [pc EXCEPT !.tui = "lock_view"]
    /\ UNCHANGED <<view, mode, file_name, seq_vars, git_ref, diff, term, holder,
                   poisoned, stack, new_diff, nkeys, proc>>

\* view.lock().unwrap(), held until the order is handled.
TuiLockView ==
    /\ proc = "running" /\ pc.tui = "lock_view"
    /\ holder["view"] = "free"
    /\ IF "view" \in poisoned
       THEN pc' = [pc EXCEPT !.tui = "dead"] /\ UNCHANGED holder
       ELSE /\ pc' = [pc EXCEPT !.tui = "lock_mode"]
            /\ holder' = [holder EXCEPT !["view"] = "tui"]
    /\ UNCHANGED <<view, mode, file_name, seq_vars, git_ref, diff, term, chan,
                   poisoned, stack, tui_order, new_diff, nkeys, proc>>

\* get_status_bar_infos: mode.lock().unwrap()
TuiLockMode ==
    /\ proc = "running" /\ pc.tui = "lock_mode"
    /\ holder["mode"] = "free"
    /\ IF "mode" \in poisoned
       THEN pc' = [pc EXCEPT !.tui = "dead"] /\ Unwind("tui", {})
       ELSE /\ pc' = [pc EXCEPT !.tui = "lock_name"]
            /\ holder' = [holder EXCEPT !["mode"] = "tui"]
            /\ poisoned' = poisoned
    /\ UNCHANGED <<view, mode, file_name, seq_vars, git_ref, diff, term, chan,
                   stack, tui_order, new_diff, nkeys, proc>>

\* get_status_bar_infos: file_name.lock().unwrap() under the mode lock, then
\* the git_ref lock; the three are dropped as the infos are returned.
TuiLockName ==
    /\ proc = "running" /\ pc.tui = "lock_name"
    /\ holder["file_name"] = "free"
    /\ IF "file_name" \in poisoned
       THEN pc' = [pc EXCEPT !.tui = "dead"] /\ Unwind("tui", {})
       ELSE /\ pc' = [pc EXCEPT !.tui = "refresh"]
            /\ holder' = [holder EXCEPT !["mode"] = "free"]
            /\ poisoned' = poisoned
    /\ UNCHANGED <<view, mode, file_name, seq_vars, git_ref, diff, term, chan,
                   stack, tui_order, new_diff, nkeys, proc>>

\* refresh_tui under the view lock: Terminate ends the process; Resize sizes
\* the view and goes on as AllLines; GitIndicators and AllLines lock the diff
\* and unwrap it, which panics when it is None.
TuiRefresh ==
    /\ proc = "running" /\ pc.tui = "refresh"
    /\ LET kind == tui_order.kind
           marks == kind \in {"GitIndicators", "AllLines", "Resize"}
       IN  /\ marks => holder["diff"] = "free"
           /\ view' = IF kind = "Resize" THEN resize(view, term[2], term[1]) ELSE view
           /\ IF kind = "Terminate"
              THEN proc' = "exited" /\ UNCHANGED <<pc, holder, poisoned>>
              ELSE /\ proc' = proc
                   /\ IF marks /\ ("diff" \in poisoned \/ ~diff.some)
                      THEN pc' = [pc EXCEPT !.tui = "dead"] /\ Unwind("tui", {"diff"})
                      ELSE /\ pc' = [pc EXCEPT !.tui = "recv"]
                           /\ holder' = [holder EXCEPT !["view"] = "free"]
                           /\ poisoned' = poisoned
    /\ UNCHANGED <<mode, file_name, seq_vars, git_ref, diff, term, chan, stack,
                   tui_order, new_diff, nkeys>>

\* ---- git thread

\* file_name.lock().unwrap().clone()
GitReadName ==
    /\ proc = "running" /\ pc.git = "name"
    /\ holder["file_name"] = "free"
    /\ pc' = [pc EXCEPT !.git = IF "file_name" \in poisoned THEN "dead" ELSE "lock_view"]
    /\ UNCHANGED <<view, mode, file_name, seq_vars, git_ref, diff, term, chan,
                   holder, poisoned, stack, tui_order, new_diff, nkeys, proc>>

\* view.lock().unwrap(): the guard lives to the end of the statement that
\* calls compute_diff.
GitLockView ==
    /\ proc = "running" /\ pc.git = "lock_view"
    /\ holder["view"] = "free"
    /\ IF "view" \in poisoned
       THEN pc' = [pc EXCEPT !.git = "dead"] /\ UNCHANGED holder
       ELSE /\ pc' = [pc EXCEPT !.git = "compute_diff"]
            /\ holder' = [holder EXCEPT !["view"] = "git"]
    /\ UNCHANGED <<view, mode, file_name, seq_vars, git_ref, diff, term, chan,
                   poisoned, stack, tui_order, new_diff, nkeys, proc>>

\* compute_diff(&dump_file(), ..).ok() returns and the view lock is dropped.
GitComputeDiff ==
    \E d \in compute_diff(view.content) :
        /\ proc = "running" /\ pc.git = "compute_diff"
        /\ new_diff' = d
        /\ holder' = [holder EXCEPT !["view"] = "free"]
        /\ pc' = [pc EXCEPT !.git = "store"]
        /\ UNCHANGED <<view, mode, file_name, seq_vars, git_ref, diff, term, chan,
                       poisoned, stack, tui_order, nkeys, proc>>

\* Under the diff lock: a diff that changed is stored and GitIndicators sent
\* (unwrap: a failed send panics the thread); then the thread sleeps.
GitStore ==
    /\ proc = "running" /\ pc.git = "store"
    /\ holder["diff"] = "free"
    /\ new_diff' = DiffNone
    /\ IF "diff" \in poisoned
       THEN pc' = [pc EXCEPT !.git = "dead"] /\ UNCHANGED <<diff, chan, poisoned>>
       ELSE IF new_diff = diff
       THEN pc' = [pc EXCEPT !.git = "name"] /\ UNCHANGED <<diff, chan, poisoned>>
       ELSE /\ diff' = new_diff
            /\ IF pc.tui = "dead"
               THEN /\ pc' = [pc EXCEPT !.git = "dead"]
                    /\ poisoned' = poisoned \cup {"diff"}
                    /\ chan' = chan
               ELSE /\ Len(chan) < MaxChan
                    /\ pc' = [pc EXCEPT !.git = "name"]
                    /\ chan' = Append(chan, GitIndicators)
                    /\ poisoned' = poisoned
    /\ UNCHANGED <<view, mode, file_name, seq_vars, git_ref, term, holder, stack,
                   tui_order, nkeys, proc>>

InputStep ==
    \/ InputExecute \/ InputBlock \/ InputReturn
    \/ SaveLockName \/ SaveLockView \/ InputSend
TuiStep == TuiRecv \/ TuiLockView \/ TuiLockMode \/ TuiLockName \/ TuiRefresh
GitStep == GitReadName \/ GitLockView \/ GitComputeDiff \/ GitStore

Next == ReadKey \/ InputStep \/ ResizeSignal \/ TuiStep \/ GitStep

\* The editor running: keys and resize signals arrive at any time.
Spec == Init /\ [][Next]_vars

\* The same under a fair scheduler: the tui thread and the git thread are not
\* left waiting forever when they can take a step, and save(), once it holds
\* the file_name lock, goes on when the view lock is free. The keys come at
\* the user's pace.
FairSpec ==
    Spec /\ WF_vars(TuiStep) /\ WF_vars(GitStep) /\ WF_vars(SaveLockView)

\* ------------------------------------------------------------------ files

\* Longest file on disk at launch, in characters, and most keys of a session.
MaxRaw == 3
MaxTyped == 5

Tab == "\t"
Space == " "

\* The four spaces a tab becomes.
FourSpaces == <<Space, Space, Space, Space>>

\* The earlier File::from_string (src/file.rs), the text taken as one line:
\* the indices of the tabs are collected first, then at each index four
\* spaces are spliced in and the element four places on is removed.
RECURSIVE splice_at(_, _)
splice_at(line, range) ==
    IF range = << >> THEN line
    ELSE LET i == Head(range)
             spliced == SubSeq(line, 1, i) \o FourSpaces \o SubSeq(line, i + 1, Len(line))
             removed == SubSeq(spliced, 1, i + 4) \o SubSeq(spliced, i + 6, Len(spliced))
         IN  splice_at(removed, Tail(range))
RECURSIVE tabs_from(_, _)
tabs_from(line, i) ==
    IF i >= Len(line) THEN << >>
    ELSE (IF line[i + 1] = Tab THEN <<i>> ELSE << >>) \o tabs_from(line, i + 1)
replace_splice(text) == splice_at(text, tabs_from(text, 0))

\* str::replace('\t', "    "): every tab, left to right.
RECURSIVE replace(_)
replace(text) ==
    IF text = << >> THEN << >>
    ELSE (IF Head(text) = Tab THEN FourSpaces ELSE <<Head(text)>>) \o replace(Tail(text))

\* File::from_string: the rope of the content with its tabs replaced.
File_from_string(content) == replace(content)

\* ToString for File writing the text without its last line feed.
File_to_string_trimmed(r) ==
    IF r # << >> /\ r[Len(r)] = NL THEN SubSeq(r, 1, Len(r) - 1) ELSE r

\* ToString for File: the characters of the rope.
File_to_string(r) == r

\* View::dump_file
dump_file(v) == File_to_string(v.content)

\* The path of the file and of its temporary, as save() builds them.
Path(dir, name) == dir \o name
TmpPath(path) == path \o <<".", "t", "m", "p">>

\* std::fs::read_to_string: the content, or an error when the path does not
\* exist or cannot be read.
read_to_string(fs, path, readable) ==
    IF path \in DOMAIN fs /\ readable
    THEN [ok |-> TRUE, v |-> fs[path]]
    ELSE [ok |-> FALSE, v |-> << >>]

\* std::fs::write: the file is created or truncated and the content written.
\* It fails without a trace when the file cannot be opened, and leaves the
\* first n characters when writing fails part way.
fs_write(fs, path, content, opened, n) ==
    IF opened
    THEN [p \in DOMAIN fs \cup {path} |->
             IF p = path THEN SubSeq(content, 1, n) ELSE fs[p]]
    ELSE fs

\* std::fs::rename: the target is replaced by the source in one step; it
\* fails, changing nothing, when the source does not exist or on an error.
fs_rename(fs, from, to, ok) ==
    IF ok /\ from \in DOMAIN fs
    THEN [p \in (DOMAIN fs \cup {to}) \ {from} |->
             IF p = to THEN fs[from] ELSE fs[p]]
    ELSE fs

\* Editor::save: nothing for an empty name; else the dump is written to
\* <path>.tmp and <path>.tmp renamed onto <path>, the result of both ignored.
save(ed, dir, fs, opened, n, renamed) ==
    IF ed.file_name = << >> THEN fs
    ELSE LET path == Path(dir, ed.file_name)
             content == dump_file(ed.view)
         IN  fs_rename(fs_write(fs, TmpPath(path), content, opened, n),
                       TmpPath(path), path, renamed)

\* FileView::new: the file is read and loaded at the origin of a window of no
\* size; when it cannot be read the process exits with status 1.
View_new(fs, path, readable) ==
    LET content_res == read_to_string(fs, path, readable) IN
    IF content_res.ok
    THEN [ok |-> TRUE, v |-> View_from(File_from_string(content_res.v), 0, 0)]
    ELSE [ok |-> FALSE, v |-> View_from(<< >>, 0, 0)]

\* The files on disk at launch: texts with tabs.
RawTexts == UNION {[1..n -> {"a", Tab, NL}] : n \in 0..MaxRaw}

\* The keys of a session with a file: to Insert mode and back, a glyph, a
\* line feed, Backspace, to Rename mode, a name character, Save.
DiskPad == {"i", "Esc", "b", NL, "Backspace", "R", "x", "w"}

\* The process before main opens the file InitName of "./": the file exists
\* or not, and a temporary of an earlier session may be left.
InitDisk ==
    /\ file_path = InitPath
    /\ file_name = InitName
    /\ \E files \in SUBSET {Path(InitPath, InitName), TmpPath(Path(InitPath, InitName))} :
           \E raw \in RawTexts :
               disk = [p \in files |-> IF p = Path(InitPath, InitName) THEN raw ELSE <<"b">>]
    /\ view = View_from(<< >>, 0, 0)
    /\ mode = "Normal"
    /\ last = NoCall
    /\ exec = NoExec
    /\ panicked = FALSE
    /\ diff = DiffNone
    /\ chan = << >>
    /\ holder = [m \in Mutexes |-> "free"]
    /\ poisoned = {}
    /\ stack = << >>
    /\ tui_order = RefreshNone
    /\ new_diff = DiffNone
    /\ nkeys = 0
    /\ proc = "starting"
    /\ git_ref = FALSE
    /\ term = <<MaxDim, MaxDim>>
    /\ pc = [input |-> "off", tui |-> "off", git |-> "off"]

\* main: the file is opened and the view sized to the terminal, or the
\* process has exited.
Launch ==
    \E readable \in BOOLEAN :
        LET r == View_new(disk, Path(file_path, file_name), readable) IN
        /\ proc = "starting"
        /\ IF r.ok
           THEN /\ view' = resize(r.v, term[2], term[1])
                /\ proc' = "running"
           ELSE /\ view' = view
                /\ proc' = "failed"
        /\ UNCHANGED <<mode, file_name, last, exec, panicked, fs_vars, git_ref, diff,
                       term, chan, holder, poisoned, pc, stack, tui_order, new_diff,
                       nkeys>>

\* run(): a key is decoded and its command executed, Save writing the disk;
\* the record of a Save holds the disk before it, and ends the session.
DiskKey ==
    \E key \in DiskPad :
        LET p == parse(key, mode)
            ed == Ed(view, mode, file_name)
            r == IF p.ok THEN execute(ed, p.cmd) ELSE Result(ed, RefreshNone)
            saves == p.ok /\ p.cmd.op = "Save"
        IN  /\ proc = "running" /\ ~panicked /\ nkeys < MaxTyped
            /\ last = NoCall
            /\ p.ok => /\ Typeable(p.cmd)
                       /\ Growth(p.cmd) > 0 => Len(view.content) + Growth(p.cmd) <= MaxChars
                       /\ Len(file_name) + NameGrowth(p.cmd) <= MaxName
            /\ nkeys' = nkeys + 1
            /\ view' = r.ed.view /\ mode' = r.ed.mode /\ file_name' = r.ed.file_name
            /\ IF saves
               THEN \E opened \in BOOLEAN, n \in 0..Len(dump_file(view)), renamed \in BOOLEAN :
                        /\ disk' = save(ed, file_path, disk, opened, n, renamed)
                        /\ last' = Call("save", Len(dump_file(view)), n, key, 0, 0, disk,
                                        opened /\ n = Len(dump_file(view)) /\ renamed)
               ELSE disk' = disk /\ last' = last
            /\ \E overflow_checks \in BOOLEAN :
                   panicked' = (r.panic \/ (r.underflow /\ overflow_checks))
            /\ UNCHANGED <<exec, file_path, git_ref, diff, term, chan, holder, poisoned,
                           pc, stack, tui_order, new_diff, proc>>

NextDisk == Launch \/ DiskKey

SpecDisk == InitDisk /\ [][NextDisk]_vars

\* ------------------------------------------------------------------ text as lines

\* The lines of a text: the glyphs between its line feeds (one line more than
\* it has line feeds).
RECURSIVE SplitLines(_)
SplitLines(r) ==
    IF \A i \in 1..Len(r) : r[i] # NL THEN <<r>>
    ELSE LET i == CHOOSE k \in 1..Len(r) :
                      r[k] = NL /\ \A j \in 1..(k - 1) : r[j] # NL
         IN  <<SubSeq(r, 1, i - 1)>> \o SplitLines(SubSeq(r, i + 1, Len(r)))

\* A sequence without its element at 1-based index i.
Without(s, i) == SubSeq(s, 1, i - 1) \o SubSeq(s, i + 1, Len(s))

\* ------------------------------------------------------------------ claims C1-C4

\* C1: with width > 0 and height > 0 and the cursor starting inside the window,
\* after any sequence of navigate, insert, insert_new_line, delete and
\* delete_line the cursor is inside the window: cursor.x in [0, width) and
\* cursor.y in [0, height).
C1_CursorInWindow ==
    /\ view.cursor[1] >= 0 /\ view.cursor[1] < view.width
    /\ view.cursor[2] >= 0 /\ view.cursor[2] < view.height

\* C1's case: a navigation that scrolled right and down and left the cursor
\* on the last row and last column of the window.
C1_Witness ==
    /\ last.op = "navigate" /\ last.scrolled
    /\ view.start_line > last.pre.start_line
    /\ view.start_col > last.pre.start_col
    /\ view.cursor = <<view.width - 1, view.height - 1>>

\* C2: after any sequence of view calls the absolute cursor is a valid buffer
\* position: its line exists and its column is at most the length of that line.
C2_AbsCursorValid ==
    LET a == abs_cursor(view) IN
    /\ a[2] < File_len(view.content)
    /\ a[1] <= Len(SplitLines(view.content)[a[2] + 1])

\* C2's case: a navigation took the cursor from beyond the end of a shorter
\* line's length onto that shorter line, where the column had to be clamped.
C2_Witness ==
    /\ last.op = "navigate" /\ last.dy # 0 /\ last.dx = 0
    /\ abs_cursor(view)[2] # abs_cursor(last.pre)[2]
    /\ abs_cursor(view)[1] < abs_cursor(last.pre)[1]
    /\ abs_cursor(view)[1] = Len(SplitLines(view.content)[abs_cursor(view)[2] + 1])

\* C3: buffer.len() >= 1 in every state reached from File::new or
\* File::from_string by any sequence of insert, delete, split_line and
\* delete_line calls, whatever their arguments (line 0 always exists).
C3_AtLeastOneLine ==
    /\ File_len(view.content) >= 1
    /\ File_line(view.content, 0).some
    /\ File_len(view.content) = Len(SplitLines(view.content))

\* C3's case: delete_line emptied a one-line buffer that held text.
C3_Witness ==
    /\ last.op = "delete_line" /\ ~panicked
    /\ Len(last.pre.content) > 0
    /\ view.content = << >>

\* C4: the scroll invariant, in every state reached by view calls:
\* 0 <= start_line <= max(0, buffer.len() - height) and 0 <= start_col.
C4_ScrollInvariant ==
    /\ 0 <= view.start_line
    /\ view.start_line <= Max(0, File_len(view.content) - view.height)
    /\ 0 <= view.start_col

\* ------------------------------------------------------------------ claims C8-C10

\* The text File::delete(line, col) must leave, as lines, by the backspace rule.
DeleteExpected(ls, line, col) ==
    IF line >= Len(ls) THEN ls
    ELSE IF col = 0
    THEN IF line = 0 THEN ls
         ELSE [i \in 1..(Len(ls) - 1) |->
                  IF i < line THEN ls[i]
                  ELSE IF i = line THEN ls[line] \o ls[line + 1]
                  ELSE ls[i + 1]]
    ELSE IF col <= Len(ls[line + 1])
    THEN [ls EXCEPT ![line + 1] = Without(ls[line + 1], col)]
    ELSE ls

\* C8: File::delete(line, col) is a backspace at (line, col): nothing for
\* line >= len(), for (0, 0) and for col > line_len(line); a join onto the
\* previous line for col = 0, line > 0; else exactly glyph col - 1 of the line
\* is removed.
C8_DeleteIsBackspace ==
    (last.op = "delete") =>
        SplitLines(view.content) =
            DeleteExpected(SplitLines(last.pre.content), last.line, last.col)

\* The text File::insert(line, col, c) must leave, as lines.
InsertExpected(ls, line, col, c) ==
    IF line >= Len(ls) \/ col > Len(ls[line + 1]) THEN ls
    ELSE [ls EXCEPT ![line + 1] =
              SubSeq(ls[line + 1], 1, col) \o <<c>>
              \o SubSeq(ls[line + 1], col + 1, Len(ls[line + 1]))]

\* C9: File::insert(line, col, c) of a glyph c leaves the text unchanged when
\* line >= len() or col > line_len(line), for every line; otherwise the line
\* becomes line[0..col] + c + line[col..] and the other lines are unchanged.
C9_InsertGuarded ==
    (last.op = "insert" /\ last.c \in Glyphs) =>
        SplitLines(view.content) =
            InsertExpected(SplitLines(last.pre.content), last.line, last.col, last.c)

\* C10: File::delete_line(line) with line >= len() returns normally and leaves
\* the text unchanged.
C10_DeleteLineOutOfRange ==
    (last.op = "delete_line" /\ last.line >= File_len(last.pre.content)) =>
        /\ ~panicked
        /\ view.content = last.pre.content

\* ------------------------------------------------------------------ claim C6

\* The merge of two intents: None is the identity, two Lines give the union of
\* their rows, every other pair gives AllLines.
OPlus(a, b) ==
    IF a = RefreshNone THEN b
    ELSE IF b = RefreshNone THEN a
    ELSE IF a.kind = "Lines" /\ b.kind = "Lines" THEN Lines(a.lines \cup b.lines)
    ELSE AllLines

\* The commands of a sequence with every nested block replaced by its children.
RECURSIVE Flatten(_)
Flatten(cmds) ==
    IF cmds = << >> THEN << >>
    ELSE IF Head(cmds).op = "CommandBlock"
    THEN Flatten(Head(cmds).cmds) \o Flatten(Tail(cmds))
    ELSE <<Head(cmds)>> \o Flatten(Tail(cmds))

\* The commands executed one by one from left to right, each by its own call
\* of execute, the intents merged from refr on; a panic ends the run.
RECURSIVE OneByOne(_, _, _)
OneByOne(ed, cmds, refr) ==
    IF cmds = << >> THEN Result(ed, refr)
    ELSE LET r == execute(ed, Head(cmds)) IN
         IF r.panic THEN r
         ELSE LET rest == OneByOne(r.ed, Tail(cmds), OPlus(refr, r.order))
              IN  [rest EXCEPT !.underflow = r.underflow \/ rest.underflow]

\* C6: executing Block(cmds) leaves the editor (text, cursor, scroll offsets,
\* mode, file name) that executing the children one by one from left to right
\* leaves, and returns the merge of the children's intents folded from None;
\* with the nested blocks flattened, the editor and the intent are the same.
\* A block panics exactly when the one-by-one run can.
C6_BlockIsFold ==
    (exec.cmd.op = "CommandBlock") =>
        LET children == OneByOne(exec.pre, exec.cmd.cmds, RefreshNone)
            flat == OneByOne(exec.pre, Flatten(exec.cmd.cmds), RefreshNone)
        IN  /\ panicked => (flat.panic \/ flat.underflow)
            /\ panicked => (children.panic \/ children.underflow)
            /\ ~panicked =>
                   /\ ~flat.panic /\ ~children.panic
                   /\ Ed(view, mode, file_name) = children.ed
                   /\ Ed(view, mode, file_name) = flat.ed
                   /\ exec.order = children.order
                   /\ exec.order = flat.order

\* C6's case: a block that nests a block of several commands was executed,
\* changed the text and the cursor, and returned the rows of several Lines
\* intents merged.
C6_Witness ==
    /\ exec.cmd.op = "CommandBlock" /\ ~panicked
    /\ \E i \in 1..Len(exec.cmd.cmds) :
           /\ exec.cmd.cmds[i].op = "CommandBlock"
           /\ Len(exec.cmd.cmds[i].cmds) > 1
    /\ view.content # exec.pre.view.content
    /\ view.cursor # exec.pre.view.cursor
    /\ exec.order.kind = "Lines"
    /\ \E i, j \in exec.order.lines : i # j

\* ------------------------------------------------------------------ claims C5, C7

\* The mutex a thread is waiting for or about to take at its next step.
Wants(t) ==
    CASE t = "input" /\ pc.input = "save_view" -> "view"
      [] t = "input" /\ pc.input = "execute" /\ stack # << >> /\ Top.cmds # << >> ->
            IF Head(Top.cmds).op = "Save" THEN "file_name" ELSE LockOf(Head(Top.cmds))
      [] t = "input" /\ pc.input = "read" -> "mode"
      [] t = "tui" /\ pc.tui = "lock_view" -> "view"
      [] t = "tui" /\ pc.tui = "lock_mode" -> "mode"
      [] t = "tui" /\ pc.tui = "lock_name" -> "file_name"
      [] t = "tui" /\ pc.tui = "refresh"
                  /\ tui_order.kind \in {"GitIndicators", "AllLines", "Resize"} -> "diff"
      [] t = "git" /\ pc.git = "name" -> "file_name"
      [] t = "git" /\ pc.git = "lock_view" -> "view"
      [] t = "git" /\ pc.git = "store" -> "diff"
      [] OTHER -> "none"

Threads == {"input", "tui", "git"}

\* The place of each mutex in the order view -> diff -> mode -> file_name.
Rank == [view |-> 1, diff |-> 2, mode |-> 3, file_name |-> 4]

\* Every thread takes a mutex only after the mutexes it holds, in the order.
LockOrder ==
    \A t \in Threads : \A m \in Mutexes :
        (holder[m] = t /\ Wants(t) # "none") => Rank[m] < Rank[Wants(t)]

\* Two threads each wait for a mutex the other holds.
Deadlock ==
    \E t1, t2 \in Threads :
        /\ t1 # t2 /\ proc = "running"
        /\ Wants(t1) # "none" /\ holder[Wants(t1)] = t2
        /\ Wants(t2) # "none" /\ holder[Wants(t2)] = t1

\* C5: every thread takes the view, diff, mode and file_name locks only in
\* the order view -> diff -> mode -> file_name, and no interleaving of the
\* input, tui and git threads reaches a deadlock.
C5_LockOrderNoDeadlock == LockOrder /\ ~Deadlock

\* Terminate is in the channel, or received and not handled yet.
TerminatePosted ==
    \/ \E i \in 1..Len(chan) : chan[i] = Terminate
    \/ pc.tui \in {"lock_view", "lock_mode", "lock_name", "refresh"} /\ tui_order = Terminate

\* C7: once Quit has been executed and Terminate posted on the channel, the
\* tui thread eventually handles it, calls terminate() and ends the process
\* with exit(0), under fair scheduling.
C7_TerminateHandled == TerminatePosted ~> (proc = "exited")

\* ------------------------------------------------------------------ claims C11-C20

\* The lines File::delete_line(line) must leave, for line < len().
DeleteLineExpected(ls, line) ==
    IF Len(ls) = 1 THEN << << >> >> ELSE Without(ls, line + 1)

\* C11: File::delete_line(line) with line < len() empties the line of a
\* single-line buffer (len() stays 1) and otherwise removes line `line`: the
\* other lines keep content and order and len() decreases by exactly one.
C11_DeleteLineRemoves ==
    (last.op = "delete_line" /\ last.line < File_len(last.pre.content)) =>
        /\ ~panicked
        /\ SplitLines(view.content) =
               DeleteLineExpected(SplitLines(last.pre.content), last.line)
        /\ File_len(view.content) = Max(1, File_len(last.pre.content) - 1)

\* clamp(n, lo, hi) on the integers.
Clamp(n, lo, hi) == IF n < lo THEN lo ELSE IF n > hi THEN hi ELSE n

\* C12: navigate(dx, dy) moves the absolute cursor to
\* y' = clamp(start_line + cy + dy, 0, len - 1) and
\* x' = clamp(start_col + cx + dx, 0, line_len(y')), the length being that of
\* the new line, for all dx, dy, +/-isize::MAX included (no wrap-around).
C12_NavigateClamps ==
    (last.op = "navigate") =>
        LET a == abs_cursor(last.pre)
            ls == SplitLines(last.pre.content)
            y == Clamp(a[2] + last.dy, 0, Len(ls) - 1)
            x == Clamp(a[1] + last.dx, 0, Len(ls[y + 1]))
        IN  /\ ~panicked
            /\ view.content = last.pre.content
            /\ abs_cursor(view) = <<x, y>>

\* C12's case: from a column and a line past the first, where both sums pass
\* isize::MAX, Move(MAX, MAX) lands on the last line, a line further down, at
\* the end of that line, which is shorter than the column left.
C12_Witness ==
    /\ last.op = "navigate" /\ last.dx = IsizeMax /\ last.dy = IsizeMax
    /\ abs_cursor(last.pre)[1] > 0 /\ abs_cursor(last.pre)[2] > 0
    /\ abs_cursor(view)[2] = File_len(view.content) - 1
    /\ abs_cursor(view)[2] > abs_cursor(last.pre)[2]
    /\ abs_cursor(view)[1] = Len(SplitLines(view.content)[abs_cursor(view)[2] + 1])
    /\ abs_cursor(view)[1] < abs_cursor(last.pre)[1]

\* C13: View::delete with the absolute cursor at line 0, column 0 changes
\* nothing: the text, the cursor, start_line and start_col are as before,
\* whatever the length of line 0.
C13_DeleteAtOriginNoOp ==
    (last.op = "delete" /\ abs_cursor(last.pre) = <<0, 0>>) =>
        /\ ~panicked
        /\ view = last.pre

\* C14: View::delete with the absolute cursor at column 0 of a line y > 0
\* joins line y onto line y - 1 (one line less) and leaves the absolute cursor
\* at (L, y - 1), L being the length line y - 1 had before the join.
C14_DeleteJoins ==
    (last.op = "delete" /\ abs_cursor(last.pre)[1] = 0 /\ abs_cursor(last.pre)[2] > 0) =>
        LET y == abs_cursor(last.pre)[2]
            ls == SplitLines(last.pre.content)
        IN  /\ ~panicked
            /\ SplitLines(view.content) =
                   [i \in 1..(Len(ls) - 1) |->
                       IF i < y THEN ls[i]
                       ELSE IF i = y THEN ls[y] \o ls[y + 1]
                       ELSE ls[i + 1]]
            /\ File_len(view.content) = File_len(last.pre.content) - 1
            /\ abs_cursor(view) = <<Len(ls[y]), y - 1>>

\* C14's case: a line that is not empty was joined onto a line that is not
\* empty, and the cursor stands between the two parts.
C14_Witness ==
    /\ last.op = "delete" /\ ~panicked
    /\ abs_cursor(last.pre)[1] = 0 /\ abs_cursor(last.pre)[2] > 0
    /\ File_len(view.content) = File_len(last.pre.content) - 1
    /\ abs_cursor(view)[1] > 0
    /\ abs_cursor(view)[1] < Len(SplitLines(view.content)[abs_cursor(view)[2] + 1])

\* C15: View::insert(c) at the absolute cursor (x, y) puts c at column x of
\* line y, shifts the rest of the line right by one, leaves every other line
\* unchanged and leaves the absolute cursor at (x + 1, y).
C15_InsertAtCursor ==
    (last.op = "insert") =>
        LET x == abs_cursor(last.pre)[1]
            y == abs_cursor(last.pre)[2]
            ls == SplitLines(last.pre.content)
        IN  /\ ~panicked
            /\ SplitLines(view.content) =
                   [ls EXCEPT ![y + 1] = SubSeq(@, 1, x) \o <<last.c>>
                                           \o SubSeq(@, x + 1, Len(@))]
            /\ abs_cursor(view) = <<x + 1, y>>

\* C15's case: a character was inserted before the end of a line that is not
\* the first: the rest of the line moved right and another line stayed.
C15_Witness ==
    /\ last.op = "insert" /\ ~panicked
    /\ abs_cursor(last.pre)[2] > 0
    /\ abs_cursor(last.pre)[1] <
           Len(SplitLines(last.pre.content)[abs_cursor(last.pre)[2] + 1])
    /\ Len(view.content) = Len(last.pre.content) + 1

\* C16: View::insert_new_line at the absolute cursor (x, y) splits line y:
\* line y keeps columns [0, x), a new line y + 1 holds columns [x, end), the
\* other lines keep their content, len() grows by one and the absolute cursor
\* becomes (0, y + 1); at the end of the last line one empty line is appended.
C16_InsertNewLineSplits ==
    (last.op = "insert_new_line") =>
        LET x == abs_cursor(last.pre)[1]
            y == abs_cursor(last.pre)[2]
            ls == SplitLines(last.pre.content)
        IN  /\ ~panicked
            /\ SplitLines(view.content) =
                   [i \in 1..(Len(ls) + 1) |->
                       IF i <= y THEN ls[i]
                       ELSE IF i = y + 1 THEN SubSeq(ls[y + 1], 1, x)
                       ELSE IF i = y + 2 THEN SubSeq(ls[y + 1], x + 1, Len(ls[y + 1]))
                       ELSE ls[i - 1]]
            /\ File_len(view.content) = File_len(last.pre.content) + 1
            /\ abs_cursor(view) = <<0, y + 1>>

\* C16's case: a line was split between two of its characters.
C16_Witness ==
    /\ last.op = "insert_new_line" /\ ~panicked
    /\ abs_cursor(last.pre)[1] > 0
    /\ abs_cursor(last.pre)[1] <
           Len(SplitLines(last.pre.content)[abs_cursor(last.pre)[2] + 1])
    /\ File_len(view.content) = File_len(last.pre.content) + 1
    /\ abs_cursor(view)[1] = 0

\* What row i of the window shows: the part of line i + start_line from
\* start_col to min(start_col + width, its length); nothing when the line is
\* shorter than start_col or does not exist.
RowExpected(v, i) ==
    LET ls == SplitLines(v.content)
        n == i + v.start_line
    IN  IF n >= Len(ls) \/ Len(ls[n + 1]) < v.start_col THEN << >>
        ELSE SubSeq(ls[n + 1], v.start_col + 1, Min(v.start_col + v.width, Len(ls[n + 1])))

\* C17: in every reachable scroll state, View::line(i) returns for every row
\* i in [0, height) the slice of line i + start_line from start_col to
\* min(start_col + width, line_len), and the empty string, without failing,
\* when the line is shorter than start_col or missing.
C17_LineSlices ==
    ~panicked =>
        \A i \in 0..(view.height - 1) :
            /\ ~View_line(view, i).panic
            /\ View_line(view, i).v = RowExpected(view, i)

\* The intent of the mapping table for a command that is no block, run from
\* the editor `pre` to the view v: cy is the cursor row after the operation,
\* and the view scrolled when start_line or start_col changed.
IntentExpected(cmd, pre, v) ==
    LET scrolled == v.start_line # pre.view.start_line \/ v.start_col # pre.view.start_col
        cy == v.cursor[2]
    IN  CASE cmd.op = "Quit" -> Terminate
          [] cmd.op \in {"Save", "Rename", "ToggleMode", "ToggleRename"} -> StatusBar
          [] cmd.op = "DeleteLine" -> AllLines
          [] cmd.op = "Move" -> IF scrolled THEN AllLines ELSE CursorPos
          [] cmd.op = "Insert" -> IF scrolled THEN AllLines ELSE Lines({cy})
          [] cmd.op = "InsertNewLine" ->
                IF scrolled THEN AllLines ELSE Lines({i \in 0..(v.height - 1) : i >= cy - 1})
          [] cmd.op = "Delete" ->
                IF scrolled THEN AllLines ELSE Lines({i \in 0..(v.height - 1) : i >= cy})

\* C20: for every command that is no block, Editor::execute returns the intent
\* of the mapping table: Terminate for Quit; StatusBar for Save, Rename,
\* ToggleMode, ToggleRename; AllLines for DeleteLine and for a Move, Insert,
\* InsertNewLine or Delete that scrolled; else CursorPos for Move, Lines({cy})
\* for Insert, Lines(cy - 1 .. height) for InsertNewLine, Lines(cy .. height)
\* for Delete.
C20_IntentTable ==
    (exec.cmd.op \notin {"none", "CommandBlock"}) =>
        /\ ~panicked
        /\ exec.order = IntentExpected(exec.cmd, exec.pre, view)

\* C20's case: an InsertNewLine that did not scroll returned the rows from
\* the one the cursor left to the bottom of the window.
C20_Witness ==
    /\ exec.cmd.op = "InsertNewLine" /\ ~panicked
    /\ view.start_line = exec.pre.view.start_line
    /\ exec.order = Lines({view.cursor[2] - 1, view.cursor[2]})
    /\ view.cursor[2] = view.height - 1

Modes == {"Normal", "Insert", "Rename"}

\* The mode machine over one decoded key: the mode is one of the three; a
\* ToggleMode, alone or as the one toggle of a block, maps Normal to Insert,
\* Insert to Normal and Rename to Normal; a ToggleRename maps Normal to Rename
\* and Rename to Normal and is never executed from Insert mode.
ModeMachine ==
    /\ mode \in Modes
    /\ (last.op = "key" /\ last.scrolled /\ ~panicked) =>
           LET leaves == Flatten(<<exec.cmd>>)
               ops == {leaves[i].op : i \in 1..Len(leaves)}
           IN  /\ "ToggleMode" \in ops =>
                      mode = (IF exec.pre.mode = "Normal" THEN "Insert" ELSE "Normal")
               /\ "ToggleRename" \in ops =>
                      /\ exec.pre.mode \in {"Normal", "Rename"}
                      /\ mode = (IF exec.pre.mode = "Normal" THEN "Rename" ELSE "Normal")
               /\ ops \cap {"ToggleMode", "ToggleRename"} = {} => mode = exec.pre.mode

NormalTable ==
    [key \in {"q", "h", "Left", "l", "Right", "j", "Down", "k", "Up", "0", "$",
              "i", "I", "a", "A", "o", "O", "w", "R", "d"} |->
        CASE key = "q" -> Quit
          [] key \in {"h", "Left"} -> Move(-1, 0)
          [] key \in {"l", "Right"} -> Move(1, 0)
          [] key \in {"j", "Down"} -> Move(0, 1)
          [] key \in {"k", "Up"} -> Move(0, -1)
          [] key = "0" -> Move(-IsizeMax, 0)
          [] key = "$" -> Move(IsizeMax, 0)
          [] key = "i" -> ToggleMode
          [] key = "I" -> CommandBlock(<<Move(-IsizeMax, 0), ToggleMode>>)
          [] key = "a" -> CommandBlock(<<Move(1, 0), ToggleMode>>)
          [] key = "A" -> CommandBlock(<<Move(IsizeMax, 0), ToggleMode>>)
          [] key = "o" -> CommandBlock(<<Move(IsizeMax, 0), InsertNewLine, ToggleMode>>)
          [] key = "O" -> CommandBlock(<<Move(-IsizeMax, 0), InsertNewLine,
                                         Move(0, -1), ToggleMode>>)
          [] key = "w" -> Save
          [] key = "R" -> ToggleRename
          [] key = "d" -> DeleteLine]
InsertTable ==
    [key \in {"Esc", "Left", "Right", "Up", "Down", "Backspace", NL, "\t"} |->
        CASE key = "Esc" -> ToggleMode
          [] key = "Left" -> Move(-1, 0)
          [] key = "Right" -> Move(1, 0)
          [] key = "Up" -> Move(0, -1)
          [] key = "Down" -> Move(0, 1)
          [] key = "Backspace" -> Delete
          [] key = NL -> InsertNewLine
          [] key = "\t" -> CommandBlock(<<Insert(" "), Insert(" "), Insert(" "), Insert(" ")>>)]
RenameTable ==
    [key \in {"Backspace", NL} |->
        IF key = "Backspace" THEN Rename(FALSE, "") ELSE ToggleMode]

\* The command the tables give a key under a mode: the table's entry; else,
\* for a character, Insert(c) in Insert mode and Rename(Some(c)) in Rename
\* mode; else the key is rejected.
Binding(key, m) ==
    LET table == CASE m = "Normal" -> NormalTable
                   [] m = "Insert" -> InsertTable
                   [] m = "Rename" -> RenameTable
    IN  IF key \in DOMAIN table THEN Ok(table[key])
        ELSE IF key \in SpecialKeys \/ m = "Normal" THEN Err
        ELSE IF m = "Insert" THEN Ok(Insert(key))
        ELSE Ok(Rename(TRUE, key))

\* C19: Command::parse(key, mode) is the function of the binding tables, for
\* every key and mode: the decoded key was accepted or rejected as the tables
\* say, with the command they give.
C19_ParseIsTable ==
    /\ \A key \in KeyPad, m \in Modes : parse(key, m) = Binding(key, m)
    /\ (last.op = "key") =>
           /\ last.scrolled = Binding(last.c, exec.pre.mode).ok
           /\ last.scrolled => exec.cmd = Binding(last.c, exec.pre.mode).cmd
           /\ ~last.scrolled => Ed(view, mode, file_name) = exec.pre

\* C19's case: the key 'a', bound in Normal mode to a block, was decoded in
\* Insert mode as Insert('a') and the character is in the text.
C19_Witness ==
    /\ last.op = "key" /\ last.c = "a"
    /\ exec.pre.mode = "Insert" /\ exec.cmd = Insert("a")
    /\ Len(view.content) = Len(exec.pre.view.content) + 1

\* ------------------------------------------------------------------ claims C21-C30

C22_RejectedKeyIgnored ==
    [][(nkeys' = nkeys + 1 /\ pc'.input = "read" /\ proc' = "running") =>
          /\ view' = view /\ mode' = mode /\ file_name' = file_name
          /\ diff' = diff
          /\ chan' = chan
          /\ stack' = << >>]_vars

\* C22's case: one key was read and rejected: the input thread reads again,
\* the editor is as it was opened and the tui thread was handed nothing.
C22_Witness ==
    /\ nkeys = 1 /\ pc.input = "read" /\ proc = "running"
    /\ view = View_from(OpenText, MaxDim, MaxDim) /\ mode = "Normal"
    /\ file_name = InitName
    /\ chan = << >> /\ tui_order = RefreshNone /\ pc.tui = "recv"

\* The tabs among the first n characters of a text.
TabsBefore(raw, n) == Cardinality({i \in 1..n : raw[i] = Tab})

\* A text is another with each tab replaced by four spaces: every character
\* sits three places further for each tab before it, a tab as four spaces.
Expanded(text, raw) ==
    /\ Len(text) = Len(raw) + 3 * TabsBefore(raw, Len(raw))
    /\ \A i \in 1..Len(raw) :
           LET at == i + 3 * TabsBefore(raw, i - 1) IN
           IF raw[i] = Tab
           THEN \A k \in 0..3 : text[at + k] = Space
           ELSE text[at] = raw[i]

\* C23: loading replaces every tab by exactly four spaces, several tabs in a
\* line included: the buffer just loaded holds no tab and is the file's text
\* with each tab replaced, and "a<TAB>b" loads as "a    b" does.
C23_LoadExpandsTabs ==
    /\ (proc = "running" /\ nkeys = 0) =>
           LET raw == disk[Path(file_path, file_name)] IN
           /\ \A i \in 1..Len(view.content) : view.content[i] # Tab
           /\ Expanded(view.content, raw)
    /\ LET tabbed == [p \in {Path(InitPath, InitName)} |-> <<"a", Tab, "b">>]
           spaced == [p \in {Path(InitPath, InitName)} |-> <<"a", Space, Space, Space, Space, "b">>]
       IN  View_new(tabbed, Path(InitPath, InitName), TRUE)
               = View_new(spaced, Path(InitPath, InitName), TRUE)

\* C23's case: a file of two tabs around an 'a' was loaded.
C23_Witness ==
    /\ proc = "running" /\ nkeys = 0
    /\ disk[Path(file_path, file_name)] = <<Tab, "a", Tab>>
    /\ view.content = FourSpaces \o <<"a">> \o FourSpaces

TabFree(text) == \A i \in 1..Len(text) : text[i] # Tab

\* C24: for a tab-free text s, with or without a last line feed, the dump of
\* the buffer loaded from s is s: a last line feed is held as a final empty
\* line; and after a Save whose steps all succeeded the file holds the dump,
\* which a fresh open loads as the same buffer.
C24_DumpRoundTrip ==
    /\ (proc = "running" /\ nkeys = 0) =>
           LET s == disk[Path(file_path, file_name)] IN
           TabFree(s) =>
               /\ dump_file(view) = s
               /\ (s # << >> /\ s[Len(s)] = NL) =>
                      /\ File_len(view.content) = Cardinality({i \in 1..Len(s) : s[i] = NL}) + 1
                      /\ File_line(view.content, File_len(view.content) - 1)
                             = [some |-> TRUE, v |-> << >>]
    /\ (last.op = "save" /\ last.scrolled /\ file_name # << >>) =>
           LET path == Path(file_path, file_name) IN
           /\ path \in DOMAIN disk
           /\ disk[path] = view.content
           /\ View_new(disk, path, TRUE).ok
           /\ View_new(disk, path, TRUE).v.content = view.content
           /\ dump_file(View_new(disk, path, TRUE).v) = disk[path]

\* C24's case: the file "<LF>" was opened, a 'b' typed before the line feed
\* and the text saved: the file now holds "b<LF>".
C24_Witness ==
    /\ last.op = "save" /\ last.scrolled
    /\ Path(file_path, file_name) \in DOMAIN last.pre
    /\ last.pre[Path(file_path, file_name)] = <<NL>>
    /\ view.content = <<"b", NL>>
    /\ disk[Path(file_path, file_name)] = <<"b", NL>>

\* C25: Save writes the dump to <path>.tmp and then renames it onto <path>,
\* so that after any save, its file system steps failing or not, <path> holds
\* its previous content (or is still missing) or the complete new content.
C25_SaveAtomic ==
    (last.op = "save" /\ file_name # << >>) =>
        LET path == Path(file_path, file_name)
            before == last.pre
        IN  \/ path \in DOMAIN disk /\ disk[path] = dump_file(view)
            \/ path \in DOMAIN disk /\ path \in DOMAIN before /\ disk[path] = before[path]
            \/ path \notin DOMAIN disk /\ path \notin DOMAIN before

\* C26: when the file named on the command line cannot be read the editor
\* still starts: it never exits at launch, and runs in Normal mode on an empty
\* buffer of one line under the given name.
C26_OpenFailureStartsEmpty ==
    /\ proc # "failed"
    /\ (proc = "running" /\ nkeys = 0 /\ Path(file_path, file_name) \notin DOMAIN disk) =>
           /\ view.content = << >> /\ File_len(view.content) = 1
           /\ file_name = InitName /\ mode = "Normal"

\* C27: with a git thread running, a diff computation that returns None or
\* an error is an empty diff: when the tui thread handles the GitIndicators
\* sent for it, with no lock poisoned, it draws and goes back to receiving,
\* the diff lock stays usable and the git thread lives.
C27_NoDiffIsEmptyDiff ==
    [][(/\ git_ref /\ proc = "running" /\ poisoned = {}
        /\ pc.tui = "refresh" /\ tui_order.kind = "GitIndicators"
        /\ ~diff.some)
       => /\ pc'.tui # "dead"
          /\ "diff" \notin poisoned'
          /\ pc.git # "dead" => pc'.git # "dead"]_vars

\* C28: in each poll of the git thread the view lock is held only while the
\* text is copied: it is released before compute_diff is called.
C28_DiffOutsideViewLock ==
    pc.git = "compute_diff" => holder["view"] # "git"

\* The blocks the keys of the session decode to.
KeyBlocks ==
    {cmd \in {parse(key, m).cmd : key \in Keys, m \in Modes} : cmd.op = "CommandBlock"}

\* The input thread is between two children of a block: some child has been
\* executed and some is still to be.
MidBlock ==
    /\ pc.input = "execute" /\ Len(stack) >= 2 /\ Top.cmds # << >>
    /\ \E block \in KeyBlocks :
           /\ Len(Top.cmds) < Len(block.cmds)
           /\ Top.cmds = SubSeq(block.cmds, Len(block.cmds) - Len(Top.cmds) + 1,
                                Len(block.cmds))

\* C29: a block is atomic for the other threads: neither the tui thread nor
\* the git thread holds the view lock, and so reads the view, while the input
\* thread is between two children of a block.
C29_BlockAtomic ==
    MidBlock => holder["view"] \notin {"tui", "git"}

\* Quit has been executed: Terminate is what execute returned to run(), or it
\* is in the channel, or the tui thread has received it.
Quitting ==
    \/ pc.input = "execute" /\ Len(stack) = 1 /\ Top.cmds = << >> /\ Top.refr = Terminate
    \/ TerminatePosted

\* C30: once execute has returned Terminate for a Quit key the input thread
\* leaves its loop: it reads no further key, so that no command is executed
\* and no further message posted by it.
C30_QuitLeavesLoop ==
    [][Quitting => /\ nkeys' = nkeys
                   /\ pc.input = "read" => pc'.input = "read"]_vars

\* ------------------------------------------------------------------ claims C31-C40

\* C31: in each poll of the git thread GitIndicators is posted if and only if
\* the diff just computed differs from the stored one, and then the stored
\* diff has been replaced by the new one; when they are equal the stored diff
\* is untouched and nothing is posted.
C31_PostIffDiffChanged ==
    [][/\ (pc.git = "store" /\ pc'.git # "store") =>
             IF new_diff # diff
             THEN diff' = new_diff /\ chan' = Append(chan, GitIndicators)
             ELSE diff' = diff /\ chan' = chan
       /\ chan' = Append(chan, GitIndicators) =>
             pc.git = "store" /\ new_diff # diff /\ diff' = new_diff
       /\ diff' # diff => pc.git = "store"]_vars

\* C36: the tui thread handles AllLines, GitIndicators and Resize without
\* failing in every reachable state, those with no diff stored included (no
\* git thread runs, or it has not stored its first result): with no lock
\* poisoned, the thread goes back to receiving.
C36_RefreshWithoutDiff ==
    [][(/\ proc = "running" /\ poisoned = {}
        /\ pc.tui = "refresh"
        /\ tui_order.kind \in {"AllLines", "GitIndicators", "Resize"})
       => pc'.tui # "dead" /\ poisoned' = {}]_vars

\* The first row (column) shown once the target is brought into a window of
\* the given size by the least scroll.
MinScroll(start, size, target) ==
    IF target < start THEN target
    ELSE IF target >= start + size THEN target - size + 1
    ELSE start

\* C32: navigate leaves start_line (start_col) unchanged when the target row
\* (column) is inside the window, and otherwise moves it by the least amount
\* that puts the target on the window's edge: to the target when scrolling up
\* or left, to target - height + 1 (target - width + 1) when scrolling down
\* or right.
C32_MinimumScroll ==
    (last.op = "navigate") =>
        LET a == abs_cursor(last.pre)
            ls == SplitLines(last.pre.content)
            y == Clamp(a[2] + last.dy, 0, Len(ls) - 1)
            x == Clamp(a[1] + last.dx, 0, Len(ls[y + 1]))
        IN  /\ view.start_line = MinScroll(last.pre.start_line, last.pre.height, y)
            /\ view.start_col = MinScroll(last.pre.start_col, last.pre.width, x)

\* C32's case: a move to the right past the window's last column, from a
\* window already scrolled, showed one column more.
C32_Witness ==
    /\ last.op = "navigate" /\ last.dx = 1
    /\ last.pre.start_col = 1
    /\ view.start_col = 2
    /\ view.cursor[1] = view.width - 1

\* C33: when height = 0 or width = 0, navigate and every operation that ends
\* with it scroll nothing (start_line and start_col are unchanged) and leave
\* the cursor at (0, 0).
C33_NoRoomNoScroll ==
    (last.op # "none" /\ (last.pre.height = 0 \/ last.pre.width = 0)) =>
        /\ ~panicked
        /\ view.start_line = last.pre.start_line
        /\ view.start_col = last.pre.start_col
        /\ view.cursor = <<0, 0>>

\* The intents: the seven plain ones and Lines of any rows of the window.
Intents ==
    {Terminate, RefreshNone, CursorPos, StatusBar, GitIndicators, AllLines, Resize}
    \cup {Lines(rows) : rows \in SUBSET (0..MaxDim - 1)}

\* The laws of the merge: None is its identity on both sides, two Lines give
\* the Lines of the union, every other pair gives AllLines, and it is
\* associative.
MergeLaws ==
    /\ \A x \in Intents : merge(RefreshNone, x) = x /\ merge(x, RefreshNone) = x
    /\ \A a, b \in SUBSET (0..MaxDim - 1) : merge(Lines(a), Lines(b)) = Lines(a \cup b)
    /\ \A x, y \in Intents \ {RefreshNone} :
           (x.kind # "Lines" \/ y.kind # "Lines") => merge(x, y) = AllLines
    /\ \A x, y, z \in Intents : merge(merge(x, y), z) = merge(x, merge(y, z))

\* The intents the commands of a sequence return, executed one after another.
RECURSIVE ChildOrders(_, _)
ChildOrders(ed, cmds) ==
    IF cmds = << >> THEN << >>
    ELSE LET r == execute(ed, Head(cmds))
         IN  <<r.order>> \o ChildOrders(r.ed, Tail(cmds))

\* The intents of a sequence merged from the right.
RECURSIVE MergedFromRight(_)
MergedFromRight(orders) ==
    IF orders = << >> THEN RefreshNone
    ELSE merge(Head(orders), MergedFromRight(Tail(orders)))

\* C34: the merge that folds a block has None as its identity, gives the
\* union for two Lines and AllLines for every other pair, and is associative:
\* the intent a block returned, folded from the left, is the merge of its
\* children's intents grouped from the right.
C34_MergeMonoid ==
    /\ MergeLaws
    /\ (exec.cmd.op = "CommandBlock" /\ ~panicked) =>
           exec.order = MergedFromRight(ChildOrders(exec.pre, exec.cmd.cmds))

\* C34's case: a block of several children returned Lines: its intents were
\* merged, a None among them.
C34_Witness ==
    /\ exec.cmd.op = "CommandBlock" /\ ~panicked
    /\ Len(exec.cmd.cmds) >= 2
    /\ exec.order.kind = "Lines"
    /\ \E i \in 1..Len(exec.cmd.cmds) :
           ChildOrders(exec.pre, exec.cmd.cmds)[i] = RefreshNone

\* The window rows an intent redraws.
Covers(order, i) ==
    \/ order.kind = "AllLines"
    \/ order.kind = "Lines" /\ i \in order.lines

\* C35: the intent execute returned covers every row of the window whose
\* displayed line differs between the view before and the view after, for a
\* single command and for the folded intent of a block.
C35_IntentCoversChanges ==
    (exec.cmd.op # "none" /\ ~panicked) =>
        \A i \in 0..(exec.pre.view.height - 1) :
            View_line(exec.pre.view, i) # View_line(view, i) => Covers(exec.order, i)

\* C35's case: a block returned Lines, a row of the window changed and the
\* rows it returned are more than the rows of one of its children.
C35_Witness ==
    /\ exec.cmd.op = "CommandBlock" /\ ~panicked
    /\ exec.order.kind = "Lines"
    /\ \E i \in 0..(exec.pre.view.height - 1) :
           View_line(exec.pre.view, i) # View_line(view, i)
    /\ LET orders == ChildOrders(exec.pre, exec.cmd.cmds)
       IN  \E k \in 1..Len(orders) :
               orders[k].kind = "Lines" /\ orders[k].lines # exec.order.lines

\* C37: when the render thread has handled a Resize, the view has the width
\* and height of the terminal and the cursor lies inside the window, wherever
\* it was before.
C37_ResizeKeepsCursorInside ==
    [][(/\ pc.tui = "refresh" /\ tui_order.kind = "Resize"
        /\ pc'.tui = "recv")
       => /\ view'.width = term[1] /\ view'.height = term[2]
          /\ view'.cursor[1] < view'.width
          /\ view'.cursor[2] < view'.height]_vars

\* C38: an InsertNewLine that did not scroll, alone or inside a block, leaves
\* the cursor on a window row >= 1: the lower end cursor.1 - 1 of the rows it
\* returns does not underflow.
C38_NewLineRowPositive ==
    (exec.cmd.op # "none") =>
        /\ ~execute(exec.pre, exec.cmd).underflow
        /\ (exec.cmd.op = "InsertNewLine" /\ exec.order # AllLines) =>
               /\ view.cursor[2] >= 1
               /\ exec.order = Lines((view.cursor[2] - 1)..(view.height - 1))

\* C38's case: an InsertNewLine on the first row of the window did not
\* scroll and returned the rows from 0.
C38_Witness ==
    /\ exec.cmd.op = "InsertNewLine" /\ ~panicked
    /\ exec.pre.view.cursor[2] = 0
    /\ exec.order.kind = "Lines" /\ 0 \in exec.order.lines
    /\ view.cursor[2] = 1

\* C39: from Normal mode, key o ends in Insert mode with a new empty line
\* below the cursor's line y and the cursor at column 0 of it; key O ends in
\* Insert mode with a new empty line at y and the cursor at column 0 of it;
\* every other line is as it was, the former line y included.
C39_OpenLine ==
    (last.op = "key" /\ last.c \in {"o", "O"} /\ exec.pre.mode = "Normal") =>
        LET y == abs_cursor(exec.pre.view)[2]
            before == SplitLines(exec.pre.view.content)
            after == SplitLines(view.content)
            at == IF last.c = "o" THEN y + 1 ELSE y
        IN  /\ ~panicked
            /\ mode = "Insert"
            /\ Len(after) = Len(before) + 1
            /\ after[at + 1] = << >>
            /\ Without(after, at + 1) = before
            /\ abs_cursor(view) = <<0, at>>

\* C39's case: key O on a line that is not the first and holds text, the
\* cursor inside it.
C39_Witness ==
    /\ last.op = "key" /\ last.c = "O" /\ exec.pre.mode = "Normal" /\ ~panicked
    /\ abs_cursor(exec.pre.view)[2] = 1
    /\ abs_cursor(exec.pre.view)[1] = 1
    /\ abs_cursor(view) = <<0, 1>>

\* C40: a key pressed in Rename mode, decoded or rejected, leaves the text,
\* the cursor, start_line and start_col as they were; and a key that changed
\* file_name was decoded in Rename mode.
C40_RenameFrame ==
    (last.op = "key") =>
        /\ exec.pre.mode = "Rename" =>
               /\ ~panicked
               /\ view.content = exec.pre.view.content
               /\ view.cursor = exec.pre.view.cursor
               /\ view.start_line = exec.pre.view.start_line
               /\ view.start_col = exec.pre.view.start_col
        /\ file_name # exec.pre.file_name =>
               exec.pre.mode = "Rename" /\ exec.cmd.op = "Rename"

\* C40's case: a character typed in Rename mode changed the name, over a
\* text with the cursor away from the origin.
C40_Witness ==
    /\ last.op = "key" /\ last.c = "x" /\ exec.pre.mode = "Rename"
    /\ file_name # exec.pre.file_name
    /\ view.content # << >>
    /\ abs_cursor(view)[1] > 0 /\ abs_cursor(view)[2] > 0

====
